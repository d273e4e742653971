-------------------------- MODULE CommandRunnerProofs --------------------------
(***************************************************************************)
(* Proofs about CommandRunner for any number of runners, commands, calls   *)
(* and log roots. What is on disk and in the caches of a command that is   *)
(* over only goes away, and only through a Cleanup that has retired it     *)
(* (Settled); so what getRecord finds of it is the end that was put, or a  *)
(* gap or an old claim once its record is retired.                         *)
(***************************************************************************)
EXTENDS CommandRunner, TLAPS

USE RunnerAssumption

-----------------------------------------------------------------------------
(* getRecord. *)

\* A reader of any root finds a status, or nothing.
LEMMA StoredType ==
  ASSUME NEW d, NEW id \in Ids
  PROVE  Stored(d, id) \in Status \cup {"none"}
BY DEF Stored

\* getRecord answers a status, or that it knows none.
LEMMA KnownType ==
  ASSUME TypeOK, NEW r \in Runners, NEW id \in Ids
  PROVE  Known(r, id) \in Status \cup {"none"} /\ OnDisk(r, id) \in Status \cup {"none"}
<1>1. OnDisk(r, id) \in Status \cup {"none"} /\ cache[r][id] \in Status \cup {"none"}
  BY StoredType DEF OnDisk, TypeOK
<1>2. QED
  BY <1>1 DEF Known, Status

\* What is read from disk is the owner's file, by a runner over the owner's root.
LEMMA OnDiskFacts ==
  ASSUME TypeOK, NEW r \in Runners, NEW id \in Ids, DiskOK(id), OnDisk(r, id) # "none"
  PROVE  /\ OnDisk(r, id) = file[id] /\ file[id] \in Status /\ id \in row
         /\ owner[id] # NoOne /\ SharesLog(r, owner[id])
<1>1. /\ OnDisk(r, id) = file[id] /\ file[id] \in Status /\ id \in row
      /\ owner[id] # NoOne /\ root[owner[id]] = root[r]
  BY DEF OnDisk, Stored
<1>2. Persistent(id)
  BY <1>1 DEF DiskOK
<1>3. QED
  BY <1>1, <1>2 DEF SharesLog, Persistent

\* A terminal answer of getRecord is the end of a command whose record is put, on a
\* runner that shares its owner's log.
LEMMA KnownFinal ==
  ASSUME TypeOK, NEW r \in Runners, NEW id \in Ids, RecordOK(id), Known(r, id) \in Final
  PROVE  /\ Known(r, id) = outcome[id]
         /\ owner[id] # NoOne /\ SharesLog(r, owner[id])
         /\ work[id] = "written" \/ Over(id)
         /\ file[id] \in {"absent", outcome[id]}
<1>1. DiskOK(id) /\ CacheOK(r, id)
  BY DEF RecordOK
<1>2. CASE cache[r][id] \in Final
  <2>1. Known(r, id) = cache[r][id] /\ cache[r][id] # "none"
    BY <1>2 DEF Known, Final
  <2>2. QED
    BY <1>1, <1>2, <2>1 DEF CacheOK
<1>3. CASE cache[r][id] \notin Final
  <2>1. Known(r, id) = OnDisk(r, id) /\ OnDisk(r, id) # "none"
    BY <1>3 DEF Known, Final
  <2>2. file[id] = OnDisk(r, id) /\ owner[id] # NoOne /\ SharesLog(r, owner[id])
    BY <1>1, <2>1, OnDiskFacts
  <2>3. QED
    BY <1>1, <2>1, <2>2 DEF DiskOK
<1>4. QED
  BY <1>2, <1>3

\* What the answers of getRecord say of the cache and the disk.
LEMMA KnownCases ==
  ASSUME TypeOK, NEW r \in Runners, NEW id \in Ids
  PROVE  /\ Known(r, id) = "running" => cache[r][id] = "running" \/ OnDisk(r, id) = "running"
         /\ Known(r, id) = "none" => cache[r][id] = "none" /\ OnDisk(r, id) = "none"
         /\ Known(r, id) \notin Final => cache[r][id] \notin Final /\ OnDisk(r, id) \notin Final
<1>1. OnDisk(r, id) \in Status \cup {"none"} /\ cache[r][id] \in Status \cup {"none"}
  BY StoredType DEF OnDisk, TypeOK
<1>2. QED
  BY <1>1 DEF Known, Status, Final

\* getRecord fills caches with the terminal records it found, and changes nothing else.
Looks ==
  /\ cache' \in [Runners -> [Ids -> Status \cup {"none"}]]
  /\ \A r \in Runners, id \in Ids :
       \/ cache'[r][id] = cache[r][id]
       \/ cache'[r][id] = Known(r, id) /\ Known(r, id) \in Final

\* One look, or none.
LEMMA RememberLooks ==
  ASSUME TypeOK
  PROVE  /\ \A r \in Runners, id \in Ids : Remember(r, id) => Looks
         /\ cache' = cache => Looks
<1>1. ASSUME NEW r \in Runners, NEW id \in Ids, Remember(r, id) PROVE Looks
  <2> DEFINE k == Known(r, id)
  <2>1. cache' = [cache EXCEPT ![r][id] = IF k \in Final THEN k ELSE @]
    BY <1>1 DEF Remember
  <2> HIDE DEF k
  <2>2. cache' \in [Runners -> [Ids -> Status \cup {"none"}]]
    BY <2>1 DEF TypeOK, Status
  <2>3. ASSUME NEW s \in Runners, NEW j \in Ids
        PROVE  cache'[s][j] = cache[s][j] \/ (s = r /\ j = id /\ k \in Final /\ cache'[s][j] = k)
    BY <2>1 DEF TypeOK
  <2>4. QED
    BY <2>2, <2>3 DEF Looks, k
<1>2. QED
  BY <1>1 DEF Looks, TypeOK

-----------------------------------------------------------------------------
(* Calls. *)

\* A call under way is one of a runner and a command that exist.
LEMMA CallOf ==
  ASSUME CallInv, NEW c \in Clients, call[c].at # "idle"
  PROVE  /\ call[c].id \in Ids /\ call[c].runner \in Runners
         /\ owner[call[c].id] # NoOne /\ Ready(call[c].runner)
BY DEF CallInv, CallKnows

\* A call that moves on keeps its runner and its command.
LEMMA ToFacts ==
  ASSUME TypeOK, NEW c \in Clients, NEW step \in CallSteps, To(c, step)
  PROVE  /\ call' \in [Clients -> Call]
         /\ call'[c].at = step /\ call'[c].id = call[c].id /\ call'[c].runner = call[c].runner
         /\ call'[c].attached = call[c].attached
         /\ \A d \in Clients : d # c => call'[d] = call[d]
<1>1. call[c] \in Call
  BY DEF TypeOK
<1>2. [call[c] EXCEPT !.at = step] \in Call
  BY <1>1 DEF Call
<1>3. call' = [call EXCEPT ![c] = [call[c] EXCEPT !.at = step]]
  BY DEF To
<1>4. call'[c] = [call[c] EXCEPT !.at = step] /\ \A d \in Clients : d # c => call'[d] = call[d]
  BY <1>3 DEF TypeOK
<1>5. QED
  BY <1>1, <1>2, <1>3, <1>4 DEF TypeOK, Call

\* So does a WaitForHistory that attaches to its command's done.
LEMMA AttachFacts ==
  ASSUME TypeOK, NEW c \in Clients, WaitAttach(c)
  PROVE  /\ call' \in [Clients -> Call]
         /\ call'[c].at = "wait" /\ call'[c].id = call[c].id /\ call'[c].runner = call[c].runner
         /\ call'[c].attached = Tracks(call[c].runner, call[c].id)
         /\ \A d \in Clients : d # c => call'[d] = call[d]
<1> DEFINE a == Tracks(call[c].runner, call[c].id)
           q == [call[c] EXCEPT !.at = "wait", !.attached = a]
<1>1. call[c] \in Call /\ a \in BOOLEAN
  BY DEF TypeOK, Tracks
<1>2. call' = [call EXCEPT ![c] = q]
  BY DEF WaitAttach
<1>3. call'[c] = q /\ \A d \in Clients : d # c => call'[d] = call[d]
  BY <1>2 DEF TypeOK
<1> HIDE DEF a
<1>4. /\ q \in Call /\ q.at = "wait" /\ q.id = call[c].id /\ q.runner = call[c].runner
      /\ q.attached = a
  BY <1>1 DEF Call, CallSteps
<1>5. call' \in [Clients -> Call]
  BY <1>2, <1>4 DEF TypeOK
<1>6. QED
  BY <1>3, <1>4, <1>5 DEF a

\* A call that begins is in its type, one that returns leaves its client idle.
LEMMA BeginsType ==
  ASSUME NEW step \in CallSteps, NEW r \in Runners, NEW id \in Ids
  PROVE  [at |-> step, runner |-> r, id |-> id, attached |-> FALSE] \in Call
BY DEF Call

LEMMA ReturnFacts ==
  ASSUME TypeOK, NEW c \in Clients, Return(c)
  PROVE  /\ call' \in [Clients -> Call] /\ call'[c] = Idle
         /\ \A d \in Clients : d # c => call'[d] = call[d]
<1>1. Idle \in Call
  BY DEF Idle, Call, CallSteps
<1>2. QED
  BY <1>1 DEF Return, TypeOK

\* A call of one client: what it begins with, or what becomes of it. It reads the
\* records and leaves them alone; only a context may be cancelled.
Quiet == UNCHANGED <<life, root, file, row, dropped, swept, owner, waited, work, exit,
                     outcome, returned, tracked, answer>>

\* AbortLoad and WaitFirst: nothing happens, or a call begins.
LEMMA BeginFacts ==
  ASSUME TypeOK, NEW c \in Clients, NEW r \in Runners, NEW id \in Ids, CallBegins(c, r, id)
  PROVE  /\ Quiet /\ Looks /\ ctx' = ctx /\ UNCHANGED ghost
         /\ call' \in [Clients -> Call] /\ \A d \in Clients : d # c => call'[d] = call[d]
         /\ owner[id] # NoOne /\ Ready(r)
         /\ \/ call' = call
            \/ /\ call'[c].runner = r /\ call'[c].id = id /\ ~call'[c].attached
               /\ \/ call'[c].at = "cancel" /\ Tracks(r, id)
                  \/ call'[c].at = "lookup"
                  \/ call'[c].at = "attach" /\ Known(r, id) = "running"
<1>1. CASE AbortLoad(c, r, id)
  <2> DEFINE step == IF Tracks(r, id) THEN "cancel" ELSE "lookup"
             q == [at |-> step, runner |-> r, id |-> id, attached |-> FALSE]
  <2>1. step \in CallSteps /\ ((step = "cancel" /\ Tracks(r, id)) \/ step = "lookup")
    BY DEF CallSteps
  <2> HIDE DEF step
  <2>2. q \in Call
    BY <2>1, BeginsType
  <2>3. call' = [call EXCEPT ![c] = q]
    BY <1>1 DEF AbortLoad, step
  <2>4. q.at = step /\ q.runner = r /\ q.id = id /\ q.attached = FALSE
    OBVIOUS
  <2> HIDE DEF q
  <2>5. call' \in [Clients -> Call] /\ call'[c] = q /\ \A d \in Clients : d # c => call'[d] = call[d]
    BY <2>2, <2>3 DEF TypeOK
  <2>6. Quiet /\ cache' = cache /\ ctx' = ctx /\ UNCHANGED ghost /\ owner[id] # NoOne /\ Ready(r)
    BY <1>1 DEF AbortLoad, Quiet, log, command
  <2>7. QED
    BY <2>1, <2>4, <2>5, <2>6, RememberLooks
<1>2. CASE WaitFirst(c, r, id)
  <2> DEFINE q == [at |-> "attach", runner |-> r, id |-> id, attached |-> FALSE]
  <2>1. q \in Call
    BY BeginsType DEF CallSteps
  <2>2. /\ Known(r, id) = "running" => call' = [call EXCEPT ![c] = q]
        /\ Known(r, id) # "running" => call' = call
    BY <1>2 DEF WaitFirst
  <2>3. q.at = "attach" /\ q.runner = r /\ q.id = id /\ q.attached = FALSE
    OBVIOUS
  <2> HIDE DEF q
  <2>4. Quiet /\ Remember(r, id) /\ ctx' = ctx /\ UNCHANGED ghost /\ owner[id] # NoOne /\ Ready(r)
    BY <1>2 DEF WaitFirst, Quiet, command
  <2>5. Looks
    BY <2>4, RememberLooks
  <2>6. CASE Known(r, id) = "running"
    BY <2>1, <2>2, <2>3, <2>4, <2>5, <2>6 DEF TypeOK
  <2>7. CASE Known(r, id) # "running"
    BY <2>2, <2>4, <2>5, <2>7 DEF TypeOK
  <2>8. QED
    BY <2>6, <2>7
<1>3. QED
  BY <1>1, <1>2 DEF CallBegins

\* What a call under way does next.
CallMoves(c) ==
  \/ /\ call[c].at = "cancel" /\ call'[c].at = "await"
     /\ call'[c].runner = call[c].runner /\ call'[c].id = call[c].id
     /\ call'[c].attached = call[c].attached
  \/ /\ call[c].at = "await" /\ DoneClosed(call[c].id) /\ call'[c].at = "read"
     /\ call'[c].runner = call[c].runner /\ call'[c].id = call[c].id
     /\ call'[c].attached = call[c].attached
  \/ /\ call[c].at = "attach" /\ call'[c].at = "wait"
     /\ call'[c].runner = call[c].runner /\ call'[c].id = call[c].id
     /\ call'[c].attached = Tracks(call[c].runner, call[c].id)
  \/ call'[c] = Idle

\* What it tells its client, as far as the properties look back at it.
CallTells(c) ==
  LET r == call[c].runner
      id == call[c].id IN
  \/ UNCHANGED ghost
  \/ /\ call[c].at = "read" /\ Known(r, id) # "running" /\ Remember(r, id)
     /\ final' = final \cup {<<r, id>>} /\ cutShort' = cutShort
  \/ /\ call[c].at = "wait" /\ Known(r, id) \notin Final
     /\ (call[c].attached /\ DoneClosed(id)) \/ Known(r, id) = "none"
     /\ cutShort' = cutShort \cup {<<r, id>>} /\ final' = final

\* A WaitForHistory that returns before its time tells what it found.
LEMMA GaveUpTells ==
  ASSUME TypeOK, CallInv, NEW c \in Clients, call[c].at = "wait", GaveUp(c), final' = final,
         \/ call[c].attached /\ DoneClosed(call[c].id)
         \/ Known(call[c].runner, call[c].id) # "running"
  PROVE  CallTells(c)
<1> DEFINE k == Known(call[c].runner, call[c].id)
<1>1. call[c].id \in Ids /\ call[c].runner \in Runners
  BY CallOf
<1>2. k \in Status \cup {"none"}
  BY <1>1, KnownType
<1>3. CASE k \in Final
  BY <1>3 DEF GaveUp, CallTells, ghost
<1>4. CASE k \notin Final
  <2>1. cutShort' = cutShort \cup {<<call[c].runner, call[c].id>>}
    BY <1>4 DEF GaveUp
  <2>2. k # "running" => k = "none"
    BY <1>2, <1>4 DEF Status
  <2>3. QED
    BY <1>4, <2>1, <2>2 DEF CallTells
<1>5. QED
  BY <1>3, <1>4

\* A step of a call is one of these.
LEMMA CallFacts ==
  ASSUME TypeOK, CallInv, NEW c \in Clients, CallStep(c)
  PROVE  /\ Quiet /\ Looks /\ ctx' \in [Ids -> {"live", "cancelled", "expired"}]
         /\ call' \in [Clients -> Call] /\ \A d \in Clients : d # c => call'[d] = call[d]
         /\ call[c].at # "idle" /\ CallMoves(c) /\ CallTells(c)
<1>1. CASE AbortCancel(c)
  <2>1. To(c, "await") /\ "await" \in CallSteps /\ call[c].at = "cancel"
    BY <1>1 DEF AbortCancel, CallSteps
  <2>2. CallMoves(c)
    BY <2>1, ToFacts DEF CallMoves
  <2>3. ctx' \in [Ids -> {"live", "cancelled", "expired"}]
    BY <1>1 DEF AbortCancel, TypeOK
  <2>4. Quiet /\ cache' = cache /\ CallTells(c)
    BY <1>1 DEF AbortCancel, Quiet, CallTells, log
  <2>5. QED
    BY <2>1, <2>2, <2>3, <2>4, ToFacts, RememberLooks
<1>2. CASE AbortDone(c)
  <2>1. To(c, "read") /\ "read" \in CallSteps /\ call[c].at = "await" /\ DoneClosed(call[c].id)
    BY <1>2 DEF AbortDone, CallSteps
  <2>2. CallMoves(c)
    BY <2>1, ToFacts DEF CallMoves
  <2>3. Quiet /\ cache' = cache /\ CallTells(c) /\ ctx' = ctx
    BY <1>2 DEF AbortDone, Quiet, CallTells, log, command
  <2>4. QED
    BY <2>1, <2>2, <2>3, ToFacts, RememberLooks DEF TypeOK
<1>3. CASE WaitAttach(c)
  <2>1. call[c].at = "attach"
    BY <1>3 DEF WaitAttach
  <2>2. CallMoves(c)
    BY <1>3, <2>1, AttachFacts DEF CallMoves
  <2>3. Quiet /\ cache' = cache /\ CallTells(c) /\ ctx' = ctx
    BY <1>3 DEF WaitAttach, Quiet, CallTells, log, command
  <2>4. QED
    BY <1>3, <2>1, <2>2, <2>3, AttachFacts, RememberLooks DEF TypeOK
<1>4. ASSUME Return(c), Quiet, Looks, ctx' = ctx, call[c].at # "idle", CallTells(c)
      PROVE  /\ Quiet /\ Looks /\ ctx' \in [Ids -> {"live", "cancelled", "expired"}]
             /\ call' \in [Clients -> Call] /\ \A d \in Clients : d # c => call'[d] = call[d]
             /\ call[c].at # "idle" /\ CallMoves(c) /\ CallTells(c)
  BY <1>4, ReturnFacts DEF CallMoves, TypeOK
<1>5. CASE AbortRead(c)
  <2> DEFINE r == call[c].runner
             id == call[c].id
  <2>1. /\ call[c].at = "read" /\ Return(c) /\ Quiet /\ Remember(r, id) /\ ctx' = ctx
        /\ final' = IF Known(r, id) = "running" THEN final ELSE final \cup {<<r, id>>}
        /\ cutShort' = cutShort
    BY <1>5 DEF AbortRead, Quiet, command
  <2>2. Looks
    BY <2>1, CallOf, RememberLooks
  <2>3. CallTells(c)
    BY <2>1 DEF CallTells, ghost
  <2>4. QED
    BY <1>4, <2>1, <2>2, <2>3
<1>6. CASE AbortTimer(c)
  <2>1. Return(c) /\ Quiet /\ cache' = cache /\ ctx' = ctx /\ call[c].at # "idle" /\ CallTells(c)
    BY <1>6 DEF AbortTimer, Quiet, CallTells, log, command
  <2>2. QED
    BY <1>4, <2>1, RememberLooks
<1>7. CASE AbortLookup(c)
  <2>1. /\ call[c].at = "lookup" /\ Return(c) /\ Quiet /\ ctx' = ctx /\ CallTells(c)
        /\ Remember(call[c].runner, call[c].id)
    BY <1>7 DEF AbortLookup, Quiet, CallTells, command, ghost
  <2>2. QED
    BY <1>4, <2>1, CallOf, RememberLooks
<1>8. ASSUME call[c].at = "wait", WaitReturns(c), CallTells(c)
      PROVE  /\ Quiet /\ Looks /\ ctx' \in [Ids -> {"live", "cancelled", "expired"}]
             /\ call' \in [Clients -> Call] /\ \A d \in Clients : d # c => call'[d] = call[d]
             /\ call[c].at # "idle" /\ CallMoves(c) /\ CallTells(c)
  <2>1. /\ Return(c) /\ Quiet /\ ctx' = ctx /\ Remember(call[c].runner, call[c].id)
    BY <1>8 DEF WaitReturns, Quiet, command
  <2>2. QED
    BY <1>4, <1>8, <2>1, CallOf, RememberLooks
<1>9. CASE WaitDeadline(c)
  <2>1. call[c].at = "wait" /\ WaitReturns(c) /\ CallTells(c)
    BY <1>9 DEF WaitDeadline, WaitReturns, CallTells, ghost
  <2>2. QED
    BY <1>8, <2>1
<1>10. CASE WaitDone(c)
  <2>1. /\ call[c].at = "wait" /\ WaitReturns(c) /\ GaveUp(c) /\ final' = final
        /\ call[c].attached /\ DoneClosed(call[c].id)
    BY <1>10 DEF WaitDone, WaitReturns
  <2>2. QED
    BY <1>8, <2>1, GaveUpTells
<1>11. CASE WaitTick(c)
  <2>1. /\ call[c].at = "wait" /\ WaitReturns(c) /\ GaveUp(c) /\ final' = final
        /\ Known(call[c].runner, call[c].id) # "running"
    BY <1>11 DEF WaitTick, WaitReturns
  <2>2. QED
    BY <1>8, <2>1, GaveUpTells
<1>12. CASE IndexUnreadable(c)
  <2>1. Return(c) /\ Quiet /\ cache' = cache /\ ctx' = ctx /\ call[c].at # "idle" /\ CallTells(c)
    BY <1>12 DEF IndexUnreadable, Quiet, CallTells, log, command
  <2>2. QED
    BY <1>4, <2>1, RememberLooks
<1>13. QED
  BY <1>1, <1>2, <1>3, <1>5, <1>6, <1>7, <1>9, <1>10, <1>11, <1>12 DEF CallStep

-----------------------------------------------------------------------------
(* The steps of a command. *)

\* They leave the histories and every other command alone.
CommandFrame(id) ==
  /\ UNCHANGED <<life, root, dropped, swept, owner, waited, call, ghost>>
  /\ \A j \in Ids \ {id} :
       /\ file'[j] = file[j] /\ (j \in row' <=> j \in row) /\ work'[j] = work[j]
       /\ exit'[j] = exit[j] /\ outcome'[j] = outcome[j] /\ returned'[j] = returned[j]
       /\ (j \in tracked' <=> j \in tracked) /\ answer'[j] = answer[j]
  /\ \A r \in Runners, j \in Ids :
       cache'[r][j] = cache[r][j] \/ (r = owner[id] /\ j = id)

\* The variables of a command stay in their types, and of the log those it may change.
CommandTypes ==
  /\ file' \in [Ids -> Status \cup {"absent", "torn"}]
  /\ row' \subseteq Ids
  /\ cache' \in [Runners -> [Ids -> Status \cup {"none"}]]
  /\ work' \in [Ids -> WorkSteps]
  /\ ctx' \in [Ids -> {"live", "cancelled", "expired"}]
  /\ exit' \in [Ids -> {"none", "nil", "error"}]
  /\ outcome' \in [Ids -> Final \cup {"none"}]
  /\ returned' \in [Ids -> Final \cup {"none", "error"}]
  /\ tracked' \subseteq Ids
  /\ answer' \in [Ids -> Status \cup {"none", "error"}]

LEMMA CommandFacts ==
  ASSUME TypeOK, NEW id \in Ids, CommandOK(id), CommandStep(id)
  PROVE  CommandFrame(id) /\ CommandTypes
<1> USE DEF TypeOK, CommandFrame, CommandTypes
<1>1. CASE Track(id)
  BY <1>1 DEF Track, WorkSteps, Executing, Status, Final, log
<1>2. CASE BudgetRunsOut(id)
  BY <1>2 DEF BudgetRunsOut, WorkSteps, Executing, Status, Final, log
<1>3. CASE Answer(id)
  BY <1>3 DEF Answer, DoneClosed, WorkSteps, Executing, Status, Final, log
<1>4. CASE PrepareFails(id)
  BY <1>4 DEF PrepareFails, Executed, WorkSteps, Executing, Status, Final, log
<1>5. CASE Launch(id)
  BY <1>5 DEF Launch, Executed, WorkSteps, Executing, Status, Final, log
<1>6. CASE RunReturns(id)
  BY <1>6 DEF RunReturns, Executed, WorkSteps, Executing, Status, Final, log
<1>7. CASE RunWedges(id)
  BY <1>7 DEF RunWedges, Executed, WorkSteps, Executing, Status, Final, log
<1>8. CASE Classify(id)
  <2>1. exit[id] \in {"nil", "error"}
    BY <1>8 DEF Classify, CommandOK
  <2>2. outcome' \in [Ids -> Final \cup {"none"}]
    BY <1>8, <2>1 DEF Classify, Final
  <2>3. Executed(id, "publish") /\ UNCHANGED <<log, exit, returned>>
    BY <1>8 DEF Classify
  <2>4. \A j \in Ids \ {id} : outcome'[j] = outcome[j]
    BY <1>8 DEF Classify
  <2>5. QED
    BY <2>2, <2>3, <2>4 DEF Executed, WorkSteps, log
<1>9. CASE PublishOpens(id)
  BY <1>9 DEF PublishOpens, Executed, WorkSteps, Executing, Status, Final, log
<1>10. CASE PublishWrites(id)
  <2>1. outcome[id] \in Final
    BY <1>10 DEF PublishWrites, CommandOK
  <2>2. QED
    BY <1>10, <2>1 DEF PublishWrites, Executed, WorkSteps, Status
<1>11. CASE Publish(id)
  <2>1. owner[id] \in Runners
    BY <1>11 DEF Publish, CommandOK
  <2>2. outcome[id] \in Status \cup {"none"}
    BY DEF Status
  <2>3. cache' \in [Runners -> [Ids -> Status \cup {"none"}]] /\ row' \subseteq Ids
    BY <1>11, <2>1, <2>2 DEF Publish
  <2>4. returned' \in [Ids -> Final \cup {"none", "error"}]
    BY <1>11 DEF Publish, Returns
  <2>5. QED
    BY <1>11, <2>3, <2>4 DEF Publish, Returns, Executed, WorkSteps
<1>12. CASE PublishFails(id)
  <2>1. returned' \in [Ids -> Final \cup {"none", "error"}]
    BY <1>12 DEF PublishFails, Returns
  <2>2. QED
    BY <1>12, <2>1 DEF PublishFails, Returns, Executed, WorkSteps, log
<1>13. CASE Untrack(id)
  BY <1>13 DEF Untrack, WorkSteps, Executing, Status, Final, log
<1>14. CASE CloseDone(id)
  BY <1>14 DEF CloseDone, WorkSteps, Executing, Status, Final, log
<1>15. CASE Expire(id)
  BY <1>15 DEF Expire, WorkSteps, Executing, Status, Final, log
<1>16. CASE CallerCancels(id)
  BY <1>16 DEF CallerCancels, WorkSteps, Executing, Status, Final, log
<1> HIDE DEF TypeOK, CommandFrame, CommandTypes
<1>17. QED
  BY <1>1, <1>2, <1>3, <1>4, <1>5, <1>6, <1>7, <1>8, <1>9, <1>10, <1>11, <1>12, <1>13,
     <1>14, <1>15, <1>16 DEF CommandStep

\* A command that no step touches, whose owner's history stays where it is.
Same(j) ==
  /\ file'[j] = file[j] /\ (j \in row' <=> j \in row) /\ work'[j] = work[j]
  /\ owner'[j] = owner[j] /\ waited'[j] = waited[j]
  /\ exit'[j] = exit[j] /\ outcome'[j] = outcome[j] /\ returned'[j] = returned[j]
  /\ (j \in tracked' <=> j \in tracked) /\ answer'[j] = answer[j]
  /\ (j \in swept => j \in swept')

\* Nobody's records lose their place, or their reader.
LEMMA SameKept ==
  ASSUME TypeOK, NEW j \in Ids, RecordOK(j), Same(j), UNCHANGED root,
         \A r \in Runners : cache'[r][j] = cache[r][j]
  PROVE  RecordOK(j)'
<1>1. CommandOK(j)'
  BY DEF RecordOK, CommandOK, Same, Persistent, Over, Final
<1>2. DiskOK(j)'
  BY DEF RecordOK, CommandOK, DiskOK, Same, Persistent, Over
<1>3. owner[j] # NoOne => owner[j] \in Runners
  BY DEF TypeOK
<1>4. waited[j] \/ returned[j] \in Final => owner[j] # NoOne
  BY DEF RecordOK, CommandOK, Over
<1>5. KeptOK(j)'
  BY <1>3, <1>4 DEF RecordOK, KeptOK, Same, Persistent
<1>6. ASSUME NEW r \in Runners PROVE CacheOK(r, j)'
  BY DEF RecordOK, CacheOK, Same, SharesLog, Over
<1>7. QED
  BY <1>1, <1>2, <1>5, <1>6 DEF RecordOK

\* Each step of a command keeps what is known of its record.
LEMMA CommandRecord ==
  ASSUME TypeOK, NEW id \in Ids, RecordOK(id), CommandStep(id)
  PROVE  RecordOK(id)'
<1>1. CommandOK(id) /\ DiskOK(id) /\ KeptOK(id) /\ \A r \in Runners : CacheOK(r, id)
  BY DEF RecordOK
<1>2. CommandFrame(id)
  BY <1>1, CommandFacts
<1>3. /\ UNCHANGED <<root, swept, owner, waited>>
      /\ \A r \in Runners : r # owner[id] => cache'[r][id] = cache[r][id]
      /\ owner[id] # NoOne => owner[id] \in Runners
  BY <1>2 DEF CommandFrame, TypeOK
<1>4. \A r \in Runners : SharesLog(r, owner[id])' <=> SharesLog(r, owner[id])
  BY <1>3 DEF SharesLog
<1>5. Persistent(id)' <=> Persistent(id)
  BY <1>3 DEF Persistent
<1>6. CASE Track(id)
  <2>1. CommandOK(id)'
    BY <1>1, <1>3, <1>5, <1>6 DEF Track, CommandOK, Over, Executing, Final, TypeOK, log
  <2>2. DiskOK(id)'
    BY <1>1, <1>3, <1>5, <1>6 DEF Track, CommandOK, DiskOK, Over, Executing, Final,
       TypeOK, log
  <2>3. KeptOK(id)'
    BY <1>1, <1>3, <1>5, <1>6 DEF Track, CommandOK, DiskOK, KeptOK, Over, Executing,
       Final, TypeOK, log
  <2>4. ASSUME NEW r \in Runners PROVE CacheOK(r, id)'
    BY <1>1, <1>3, <1>4, <1>6 DEF Track, CommandOK, DiskOK, CacheOK, Over, Executing,
       Final, TypeOK, log
  <2>5. QED
    BY <2>1, <2>2, <2>3, <2>4 DEF RecordOK
<1>7. CASE BudgetRunsOut(id)
  <2>1. CommandOK(id)'
    BY <1>1, <1>3, <1>5, <1>7 DEF BudgetRunsOut, CommandOK, Over, Executing, Final,
       TypeOK, log
  <2>2. DiskOK(id)'
    BY <1>1, <1>3, <1>5, <1>7 DEF BudgetRunsOut, CommandOK, DiskOK, Over, Executing,
       Final, TypeOK, log
  <2>3. KeptOK(id)'
    BY <1>1, <1>3, <1>5, <1>7 DEF BudgetRunsOut, CommandOK, DiskOK, KeptOK, Over,
       Executing, Final, TypeOK, log
  <2>4. ASSUME NEW r \in Runners PROVE CacheOK(r, id)'
    BY <1>1, <1>3, <1>4, <1>7 DEF BudgetRunsOut, CommandOK, DiskOK, CacheOK, Over,
       Executing, Final, TypeOK, log
  <2>5. QED
    BY <2>1, <2>2, <2>3, <2>4 DEF RecordOK
<1>8. CASE Answer(id)
  <2>1. CommandOK(id)'
    BY <1>1, <1>3, <1>5, <1>8 DEF Answer, DoneClosed, CommandOK, Over, Executing,
       Final, TypeOK, log
  <2>2. DiskOK(id)'
    BY <1>1, <1>3, <1>5, <1>8 DEF Answer, DoneClosed, CommandOK, DiskOK, Over,
       Executing, Final, TypeOK, log
  <2>3. KeptOK(id)'
    BY <1>1, <1>3, <1>5, <1>8 DEF Answer, DoneClosed, CommandOK, DiskOK, KeptOK, Over,
       Executing, Final, TypeOK, log
  <2>4. ASSUME NEW r \in Runners PROVE CacheOK(r, id)'
    BY <1>1, <1>3, <1>4, <1>8 DEF Answer, DoneClosed, CommandOK, DiskOK, CacheOK,
       Over, Executing, Final, TypeOK, log
  <2>5. QED
    BY <2>1, <2>2, <2>3, <2>4 DEF RecordOK
<1>9. CASE PrepareFails(id)
  <2>1. CommandOK(id)'
    BY <1>1, <1>3, <1>5, <1>9 DEF PrepareFails, Executed, CommandOK, Over, Executing,
       Final, TypeOK, log
  <2>2. DiskOK(id)'
    BY <1>1, <1>3, <1>5, <1>9 DEF PrepareFails, Executed, CommandOK, DiskOK, Over,
       Executing, Final, TypeOK, log
  <2>3. KeptOK(id)'
    BY <1>1, <1>3, <1>5, <1>9 DEF PrepareFails, Executed, CommandOK, DiskOK, KeptOK,
       Over, Executing, Final, TypeOK, log
  <2>4. ASSUME NEW r \in Runners PROVE CacheOK(r, id)'
    BY <1>1, <1>3, <1>4, <1>9 DEF PrepareFails, Executed, CommandOK, DiskOK, CacheOK,
       Over, Executing, Final, TypeOK, log
  <2>5. QED
    BY <2>1, <2>2, <2>3, <2>4 DEF RecordOK
<1>10. CASE Launch(id)
  <2>1. CommandOK(id)'
    BY <1>1, <1>3, <1>5, <1>10 DEF Launch, Executed, CommandOK, Over, Executing,
       Final, TypeOK, log
  <2>2. DiskOK(id)'
    BY <1>1, <1>3, <1>5, <1>10 DEF Launch, Executed, CommandOK, DiskOK, Over,
       Executing, Final, TypeOK, log
  <2>3. KeptOK(id)'
    BY <1>1, <1>3, <1>5, <1>10 DEF Launch, Executed, CommandOK, DiskOK, KeptOK, Over,
       Executing, Final, TypeOK, log
  <2>4. ASSUME NEW r \in Runners PROVE CacheOK(r, id)'
    BY <1>1, <1>3, <1>4, <1>10 DEF Launch, Executed, CommandOK, DiskOK, CacheOK, Over,
       Executing, Final, TypeOK, log
  <2>5. QED
    BY <2>1, <2>2, <2>3, <2>4 DEF RecordOK
<1>11. CASE RunReturns(id)
  <2>1. CommandOK(id)'
    BY <1>1, <1>3, <1>5, <1>11 DEF RunReturns, Executed, CommandOK, Over, Executing,
       Final, TypeOK, log
  <2>2. DiskOK(id)'
    BY <1>1, <1>3, <1>5, <1>11 DEF RunReturns, Executed, CommandOK, DiskOK, Over,
       Executing, Final, TypeOK, log
  <2>3. KeptOK(id)'
    BY <1>1, <1>3, <1>5, <1>11 DEF RunReturns, Executed, CommandOK, DiskOK, KeptOK,
       Over, Executing, Final, TypeOK, log
  <2>4. ASSUME NEW r \in Runners PROVE CacheOK(r, id)'
    BY <1>1, <1>3, <1>4, <1>11 DEF RunReturns, Executed, CommandOK, DiskOK, CacheOK,
       Over, Executing, Final, TypeOK, log
  <2>5. QED
    BY <2>1, <2>2, <2>3, <2>4 DEF RecordOK
<1>12. CASE RunWedges(id)
  <2>1. CommandOK(id)'
    BY <1>1, <1>3, <1>5, <1>12 DEF RunWedges, Executed, CommandOK, Over, Executing,
       Final, TypeOK, log
  <2>2. DiskOK(id)'
    BY <1>1, <1>3, <1>5, <1>12 DEF RunWedges, Executed, CommandOK, DiskOK, Over,
       Executing, Final, TypeOK, log
  <2>3. KeptOK(id)'
    BY <1>1, <1>3, <1>5, <1>12 DEF RunWedges, Executed, CommandOK, DiskOK, KeptOK,
       Over, Executing, Final, TypeOK, log
  <2>4. ASSUME NEW r \in Runners PROVE CacheOK(r, id)'
    BY <1>1, <1>3, <1>4, <1>12 DEF RunWedges, Executed, CommandOK, DiskOK, CacheOK,
       Over, Executing, Final, TypeOK, log
  <2>5. QED
    BY <2>1, <2>2, <2>3, <2>4 DEF RecordOK
<1>13. CASE Classify(id)
  <2>1. CommandOK(id)'
    BY <1>1, <1>3, <1>5, <1>13 DEF Classify, Executed, CommandOK, Over, Executing,
       Final, TypeOK, log
  <2>2. DiskOK(id)'
    BY <1>1, <1>3, <1>5, <1>13 DEF Classify, Executed, CommandOK, DiskOK, Over,
       Executing, Final, TypeOK, log
  <2>3. KeptOK(id)'
    BY <1>1, <1>3, <1>5, <1>13 DEF Classify, Executed, CommandOK, DiskOK, KeptOK,
       Over, Executing, Final, TypeOK, log
  <2>4. ASSUME NEW r \in Runners PROVE CacheOK(r, id)'
    BY <1>1, <1>3, <1>4, <1>13 DEF Classify, Executed, CommandOK, DiskOK, CacheOK,
       Over, Executing, Final, TypeOK, log
  <2>5. QED
    BY <2>1, <2>2, <2>3, <2>4 DEF RecordOK
<1>14. CASE PublishOpens(id)
  <2>1. CommandOK(id)'
    BY <1>1, <1>3, <1>5, <1>14 DEF PublishOpens, Executed, CommandOK, Over, Executing,
       Final, TypeOK, log
  <2>2. DiskOK(id)'
    BY <1>1, <1>3, <1>5, <1>14 DEF PublishOpens, Executed, CommandOK, DiskOK, Over,
       Executing, Final, TypeOK, log
  <2>3. KeptOK(id)'
    BY <1>1, <1>3, <1>5, <1>14 DEF PublishOpens, Executed, CommandOK, DiskOK, KeptOK,
       Over, Executing, Final, TypeOK, log
  <2>4. ASSUME NEW r \in Runners PROVE CacheOK(r, id)'
    BY <1>1, <1>3, <1>4, <1>14 DEF PublishOpens, Executed, CommandOK, DiskOK, CacheOK,
       Over, Executing, Final, TypeOK, log
  <2>5. QED
    BY <2>1, <2>2, <2>3, <2>4 DEF RecordOK
<1>15. CASE PublishWrites(id)
  <2>1. CommandOK(id)'
    BY <1>1, <1>3, <1>5, <1>15 DEF PublishWrites, Executed, CommandOK, Over,
       Executing, Final, TypeOK, log
  <2>2. DiskOK(id)'
    BY <1>1, <1>3, <1>5, <1>15 DEF PublishWrites, Executed, CommandOK, DiskOK, Over,
       Executing, Final, TypeOK, log
  <2>3. KeptOK(id)'
    BY <1>1, <1>3, <1>5, <1>15 DEF PublishWrites, Executed, CommandOK, DiskOK, KeptOK,
       Over, Executing, Final, TypeOK, log
  <2>4. ASSUME NEW r \in Runners PROVE CacheOK(r, id)'
    BY <1>1, <1>3, <1>4, <1>15 DEF PublishWrites, Executed, CommandOK, DiskOK,
       CacheOK, Over, Executing, Final, TypeOK, log
  <2>5. QED
    BY <2>1, <2>2, <2>3, <2>4 DEF RecordOK
<1>16. CASE Publish(id)
  <2>0. /\ outcome'[id] = outcome[id] /\ outcome[id] \in Final
        /\ work'[id] \in {"published", "gone"} /\ owner[id] \in Runners
        /\ cache'[owner[id]][id] = outcome[id] /\ file' = file
        /\ returned'[id] \in {"error", outcome[id]}
        /\ Persistent(id) => work[id] = "written" /\ id \in row'
        /\ id \in row => id \in row'
    BY <1>1, <1>3, <1>16 DEF Publish, Executed, Returns, CommandOK, TypeOK
  <2>1. CommandOK(id)'
    BY <1>1, <1>3, <1>5, <1>16 DEF Publish, Executed, Returns, CommandOK, Over,
       Executing, Final, TypeOK
  <2>2. DiskOK(id)'
    BY <1>1, <1>3, <1>5, <1>16 DEF Publish, Executed, Returns, CommandOK, DiskOK,
       Over, Executing, Final, TypeOK
  <2>3. KeptOK(id)'
    BY <1>1, <1>3, <1>5, <2>0 DEF CommandOK, DiskOK, KeptOK, Final
  <2>4. ASSUME NEW r \in Runners PROVE CacheOK(r, id)'
    BY <1>1, <1>3, <1>4, <2>0 DEF CommandOK, DiskOK, CacheOK, Over, Final, SharesLog
  <2>5. QED
    BY <2>1, <2>2, <2>3, <2>4 DEF RecordOK
<1>17. CASE PublishFails(id)
  <2>1. CommandOK(id)'
    BY <1>1, <1>3, <1>5, <1>17 DEF PublishFails, Executed, Returns, PutUnderWay,
       CommandOK, Over, Executing, Final, TypeOK, log
  <2>2. DiskOK(id)'
    BY <1>1, <1>3, <1>5, <1>17 DEF PublishFails, Executed, Returns, PutUnderWay,
       CommandOK, DiskOK, Over, Executing, Final, TypeOK, log
  <2>3. KeptOK(id)'
    BY <1>1, <1>3, <1>5, <1>17 DEF PublishFails, Executed, Returns, PutUnderWay,
       CommandOK, DiskOK, KeptOK, Over, Executing, Final, TypeOK, log
  <2>4. ASSUME NEW r \in Runners PROVE CacheOK(r, id)'
    BY <1>1, <1>3, <1>4, <1>17 DEF PublishFails, Executed, Returns, PutUnderWay,
       CommandOK, DiskOK, CacheOK, Over, Executing, Final, TypeOK, log
  <2>5. QED
    BY <2>1, <2>2, <2>3, <2>4 DEF RecordOK
<1>18. CASE Untrack(id)
  <2>1. CommandOK(id)'
    BY <1>1, <1>3, <1>5, <1>18 DEF Untrack, CommandOK, Over, Executing, Final, TypeOK, log
  <2>2. DiskOK(id)'
    BY <1>1, <1>3, <1>5, <1>18 DEF Untrack, CommandOK, DiskOK, Over, Executing, Final,
       TypeOK, log
  <2>3. KeptOK(id)'
    BY <1>1, <1>3, <1>5, <1>18 DEF Untrack, CommandOK, DiskOK, KeptOK, Over,
       Executing, Final, TypeOK, log
  <2>4. ASSUME NEW r \in Runners PROVE CacheOK(r, id)'
    BY <1>1, <1>3, <1>4, <1>18 DEF Untrack, CommandOK, DiskOK, CacheOK, Over,
       Executing, Final, TypeOK, log
  <2>5. QED
    BY <2>1, <2>2, <2>3, <2>4 DEF RecordOK
<1>19. CASE CloseDone(id)
  <2>1. CommandOK(id)'
    BY <1>1, <1>3, <1>5, <1>19 DEF CloseDone, CommandOK, Over, Executing, Final, TypeOK, log
  <2>2. DiskOK(id)'
    BY <1>1, <1>3, <1>5, <1>19 DEF CloseDone, CommandOK, DiskOK, Over, Executing,
       Final, TypeOK, log
  <2>3. KeptOK(id)'
    BY <1>1, <1>3, <1>5, <1>19 DEF CloseDone, CommandOK, DiskOK, KeptOK, Over,
       Executing, Final, TypeOK, log
  <2>4. ASSUME NEW r \in Runners PROVE CacheOK(r, id)'
    BY <1>1, <1>3, <1>4, <1>19 DEF CloseDone, CommandOK, DiskOK, CacheOK, Over,
       Executing, Final, TypeOK, log
  <2>5. QED
    BY <2>1, <2>2, <2>3, <2>4 DEF RecordOK
<1>20. CASE Expire(id)
  <2>1. CommandOK(id)'
    BY <1>1, <1>3, <1>5, <1>20 DEF Expire, CommandOK, Over, Executing, Final, TypeOK, log
  <2>2. DiskOK(id)'
    BY <1>1, <1>3, <1>5, <1>20 DEF Expire, CommandOK, DiskOK, Over, Executing, Final,
       TypeOK, log
  <2>3. KeptOK(id)'
    BY <1>1, <1>3, <1>5, <1>20 DEF Expire, CommandOK, DiskOK, KeptOK, Over, Executing,
       Final, TypeOK, log
  <2>4. ASSUME NEW r \in Runners PROVE CacheOK(r, id)'
    BY <1>1, <1>3, <1>4, <1>20 DEF Expire, CommandOK, DiskOK, CacheOK, Over,
       Executing, Final, TypeOK, log
  <2>5. QED
    BY <2>1, <2>2, <2>3, <2>4 DEF RecordOK
<1>21. CASE CallerCancels(id)
  <2>1. CommandOK(id)'
    BY <1>1, <1>3, <1>5, <1>21 DEF CallerCancels, CommandOK, Over, Executing, Final,
       TypeOK, log
  <2>2. DiskOK(id)'
    BY <1>1, <1>3, <1>5, <1>21 DEF CallerCancels, CommandOK, DiskOK, Over, Executing,
       Final, TypeOK, log
  <2>3. KeptOK(id)'
    BY <1>1, <1>3, <1>5, <1>21 DEF CallerCancels, CommandOK, DiskOK, KeptOK, Over,
       Executing, Final, TypeOK, log
  <2>4. ASSUME NEW r \in Runners PROVE CacheOK(r, id)'
    BY <1>1, <1>3, <1>4, <1>21 DEF CallerCancels, CommandOK, DiskOK, CacheOK, Over,
       Executing, Final, TypeOK, log
  <2>5. QED
    BY <2>1, <2>2, <2>3, <2>4 DEF RecordOK
<1>22. QED
  BY <1>6, <1>7, <1>8, <1>9, <1>10, <1>11, <1>12, <1>13, <1>14, <1>15, <1>16, <1>17,
     <1>18, <1>19, <1>20, <1>21 DEF CommandStep

-----------------------------------------------------------------------------
(* The start of a command. *)

\* It leaves the histories and every other command alone.
StartFrame(r, id) ==
  /\ UNCHANGED <<life, root, dropped, swept, call, ghost>>
  /\ owner[id] = NoOne /\ Ready(r) /\ owner'[id] = r /\ work'[id] # "unborn"
  /\ \A j \in Ids \ {id} :
       /\ owner'[j] = owner[j] /\ waited'[j] = waited[j]
       /\ file'[j] = file[j] /\ (j \in row' <=> j \in row) /\ work'[j] = work[j]
       /\ returned'[j] = returned[j]
  /\ UNCHANGED <<exit, outcome, tracked, answer>>
  /\ \A s \in Runners, j \in Ids : cache'[s][j] = cache[s][j] \/ (s = r /\ j = id)

LEMMA StartFacts ==
  ASSUME TypeOK, NEW r \in Runners, NEW id \in Ids, StartStep(r, id)
  PROVE  StartFrame(r, id) /\ TypeOK'
<1> USE DEF TypeOK, StartFrame
<1>1. CASE RunInline(r, id)
  BY <1>1 DEF RunInline, WorkSteps, Executing, log, command, ghost
<1>2. CASE RecordRunning(r, id)
  <2>1. /\ file' = file \/ file' = [file EXCEPT ![id] = "running"]
        /\ row' = row \/ row' = row \cup {id}
    BY <1>2 DEF RecordRunning
  <2>2. /\ owner[id] = NoOne /\ Ready(r) /\ owner' = [owner EXCEPT ![id] = r]
        /\ waited' = [waited EXCEPT ![id] = TRUE] /\ work' = [work EXCEPT ![id] = "recorded"]
        /\ cache' = [cache EXCEPT ![r][id] = "running"]
        /\ UNCHANGED <<life, root, dropped, swept, ctx, exit, outcome, returned, tracked,
                       answer, call, ghost>>
    BY <1>2 DEF RecordRunning
  <2>3. /\ file' \in [Ids -> Status \cup {"absent", "torn"}] /\ row' \subseteq Ids
        /\ \A j \in Ids \ {id} : file'[j] = file[j] /\ (j \in row' <=> j \in row)
    BY <2>1 DEF Status
  <2>4. /\ cache' \in [Runners -> [Ids -> Status \cup {"none"}]]
        /\ \A s \in Runners, j \in Ids : cache'[s][j] = cache[s][j] \/ (s = r /\ j = id)
    BY <2>2 DEF Status
  <2>5. /\ owner' \in [Ids -> Runners \cup {NoOne}] /\ waited' \in [Ids -> BOOLEAN]
        /\ work' \in [Ids -> WorkSteps] /\ owner'[id] = r /\ work'[id] = "recorded"
        /\ \A j \in Ids \ {id} :
             owner'[j] = owner[j] /\ waited'[j] = waited[j] /\ work'[j] = work[j]
    BY <2>2 DEF WorkSteps
  <2>6. TypeOK'
    BY <2>2, <2>3, <2>4, <2>5 DEF ghost
  <2>7. StartFrame(r, id)
    BY <2>2, <2>3, <2>4, <2>5
  <2>8. QED
    BY <2>6, <2>7
<1>3. CASE RecordRunningFails(r, id)
  BY <1>3 DEF RecordRunningFails, WorkSteps, log, command, ghost
<1> HIDE DEF TypeOK, StartFrame
<1>4. QED
  BY <1>1, <1>2, <1>3 DEF StartStep

\* A command that starts has left no record before.
LEMMA StartRecord ==
  ASSUME TypeOK, NEW r \in Runners, NEW id \in Ids, RecordOK(id), StartStep(r, id)
  PROVE  RecordOK(id)'
<1>1. /\ owner[id] = NoOne /\ work[id] = "unborn" /\ ~waited[id] /\ id \notin tracked
      /\ returned[id] \notin Final /\ answer[id] \notin Final
      /\ file[id] = "absent" /\ id \notin row
      /\ \A s \in Runners : cache[s][id] = "none"
  BY DEF StartStep, RunInline, RecordRunning, RecordRunningFails, RecordOK, CommandOK,
     DiskOK, CacheOK, Over
<1>2. CASE RunInline(r, id)
  <2>1. /\ owner'[id] = r /\ work'[id] = "prepare"
        /\ UNCHANGED <<waited, tracked, returned, answer, file, row, cache, outcome>>
    BY <1>2 DEF RunInline, TypeOK, log
  <2>2. CommandOK(id)' /\ DiskOK(id)' /\ KeptOK(id)'
    BY <1>1, <2>1 DEF CommandOK, DiskOK, KeptOK, Over, Status, Final
  <2>3. \A s \in Runners : CacheOK(s, id)'
    BY <1>1, <2>1 DEF CacheOK, Final
  <2>4. QED
    BY <2>2, <2>3 DEF RecordOK
<1>3. CASE RecordRunning(r, id)
  <2>1. /\ owner'[id] = r /\ work'[id] = "recorded" /\ waited'[id]
        /\ UNCHANGED <<tracked, returned, answer, outcome, root>>
        /\ cache'[r][id] = "running" /\ \A s \in Runners : s # r => cache'[s][id] = "none"
        /\ IF root[r] = Memory THEN file'[id] = "absent" /\ id \notin row'
           ELSE file'[id] = "running" /\ id \in row'
    BY <1>1, <1>3 DEF RecordRunning, TypeOK
  <2>2. CommandOK(id)' /\ DiskOK(id)' /\ KeptOK(id)'
    BY <1>1, <2>1 DEF CommandOK, DiskOK, KeptOK, Over, Status, Final, Persistent
  <2>3. \A s \in Runners : CacheOK(s, id)'
    BY <1>1, <2>1 DEF CacheOK, Final, SharesLog
  <2>4. QED
    BY <2>2, <2>3 DEF RecordOK
<1>4. CASE RecordRunningFails(r, id)
  <2>1. /\ owner'[id] = r /\ work'[id] = "gone" /\ returned'[id] = "error"
        /\ UNCHANGED <<waited, tracked, answer, file, row, cache, outcome>>
    BY <1>4 DEF RecordRunningFails, TypeOK, log
  <2>2. CommandOK(id)' /\ DiskOK(id)' /\ KeptOK(id)'
    BY <1>1, <2>1 DEF CommandOK, DiskOK, KeptOK, Over, Status, Final
  <2>3. \A s \in Runners : CacheOK(s, id)'
    BY <1>1, <2>1 DEF CacheOK, Final
  <2>4. QED
    BY <2>2, <2>3 DEF RecordOK
<1>5. QED
  BY <1>2, <1>3, <1>4 DEF StartStep

-----------------------------------------------------------------------------
(* A history that is opened or cleaned up. *)

\* It takes records away, none that it has not retired, and puts none; a history that
\* is in use keeps its root and only loses cached records.
HistoryFrame ==
  /\ UNCHANGED <<command, call, ghost>>
  /\ \A r \in Runners : Ready(r) => Ready(r)' /\ root'[r] = root[r]
  /\ swept \subseteq swept'
  /\ \A id \in Ids :
       /\ file'[id] = file[id] \/ (file'[id] = "absent" /\ id \in swept')
       /\ id \in row' => id \in row
       /\ id \in row => id \in row' \/ id \in swept'
       /\ \A r \in Runners : Ready(r) =>
            \/ cache'[r][id] = cache[r][id]
            \/ cache'[r][id] = "none" /\ id \in swept'

\* One that is not in use holds what is on disk, or what it held, or nothing.
NewCaches ==
  \A r \in Runners : ~Ready(r) =>
    \A id \in Ids :
      \/ cache'[r][id] = "none"
      \/ cache'[r][id] = cache[r][id] /\ root'[r] = root[r]
      \/ cache'[r][id] = Stored(root'[r], id) /\ root'[r] # Memory

LEMMA HistoryFacts ==
  ASSUME TypeOK, LifeInv, NEW r \in Runners, HistoryStep(r)
  PROVE  HistoryFrame /\ NewCaches /\ TypeOK'
<1>1. CASE Open(r)
  <2>1. PICK d \in Roots :
          /\ root' = [root EXCEPT ![r] = d]
          /\ cache' = [cache EXCEPT ![r] = [id \in Ids |-> Stored(d, id)]]
    BY <1>1 DEF Open
  <2> DEFINE new == [id \in Ids |-> Stored(d, id)]
  <2>2. new \in [Ids -> Status \cup {"none"}] /\ \A id \in Ids : new[id] = Stored(d, id)
    BY StoredType
  <2> HIDE DEF new
  <2>3. cache' = [cache EXCEPT ![r] = new]
    BY <2>1 DEF new
  <2>4. /\ life[r] = "unmade" /\ life' = [life EXCEPT ![r] = "loaded"]
        /\ UNCHANGED <<file, row, dropped, swept, command, call, ghost>>
    BY <1>1 DEF Open
  <2>5. ~Ready(r) /\ d # Memory
    BY <2>4 DEF Ready
  <2>6. HistoryFrame
    BY <2>1, <2>3, <2>4, <2>5 DEF HistoryFrame, Ready, TypeOK
  <2>7. NewCaches
    BY <2>1, <2>2, <2>3, <2>5 DEF NewCaches, TypeOK
  <2>8. TypeOK'
    BY <2>1, <2>2, <2>3, <2>4 DEF TypeOK, command, ghost
  <2>9. QED
    BY <2>6, <2>7, <2>8
<1>2. CASE OpenInMemory(r)
  <2>1. /\ life' = [life EXCEPT ![r] = "up"]
        /\ UNCHANGED <<root, file, row, cache, dropped, swept, command, call, ghost>>
    BY <1>2 DEF OpenInMemory
  <2>2. HistoryFrame
    BY <2>1 DEF HistoryFrame, Ready, TypeOK
  <2>3. NewCaches
    BY <2>1 DEF NewCaches
  <2>4. TypeOK'
    BY <2>1 DEF TypeOK, command, ghost
  <2>5. QED
    BY <2>2, <2>3, <2>4
<1>3. CASE CleanupRemoves(r)
  <2>0. PICK retire \in SUBSET {id \in row : root[owner[id]] = root[r]} :
          /\ \E removed \in SUBSET retire :
               file' = [id \in Ids |-> IF id \in removed THEN "absent" ELSE file[id]]
          /\ cache' = [cache EXCEPT ![r] = [id \in Ids |-> IF id \in retire THEN "none" ELSE @[id]]]
          /\ dropped' = [dropped EXCEPT ![r] = retire]
          /\ swept' = swept \cup retire
    BY <1>3 DEF CleanupRemoves
  <2>1. PICK removed \in SUBSET retire :
          file' = [id \in Ids |-> IF id \in removed THEN "absent" ELSE file[id]]
    BY <2>0
  <2>2. /\ life' = [life EXCEPT ![r] = IF @ = "up" THEN "cleaning" ELSE "opening"]
        /\ life[r] \in {"loaded", "up"}
        /\ UNCHANGED <<root, row, command, call, ghost>>
    BY <1>3 DEF CleanupRemoves
  <2>3. retire \subseteq Ids /\ removed \subseteq retire /\ retire \subseteq swept'
    BY <2>0, <2>1 DEF TypeOK
  <2>4. cache' \in [Runners -> [Ids -> Status \cup {"none"}]]
    BY <2>0, <2>1 DEF TypeOK
  <2>5. \A s \in Runners, id \in Ids :
          cache'[s][id] = IF s = r /\ id \in retire THEN "none" ELSE cache[s][id]
    BY <2>0, <2>1 DEF TypeOK
  <2>6. \A s \in Runners : Ready(s) => Ready(s)'
    BY <2>2 DEF Ready, TypeOK
  <2>7. HistoryFrame
    BY <2>0, <2>1, <2>2, <2>3, <2>5, <2>6 DEF HistoryFrame
  <2>8. NewCaches
    BY <2>2, <2>5 DEF NewCaches
  <2>9. TypeOK'
    BY <2>0, <2>1, <2>2, <2>3, <2>4 DEF TypeOK, command, ghost
  <2>10. QED
    BY <2>7, <2>8, <2>9
<1>4. CASE CleanupRewrites(r)
  <2>1. /\ row' = row \ dropped[r] /\ dropped' = [dropped EXCEPT ![r] = {}]
        /\ life' = [life EXCEPT ![r] = "up"]
        /\ UNCHANGED <<root, file, cache, swept, command, call, ghost>>
    BY <1>4 DEF CleanupRewrites
  <2>2. dropped[r] \subseteq swept
    BY DEF LifeInv
  <2>3. HistoryFrame
    BY <2>1, <2>2 DEF HistoryFrame, Ready, TypeOK
  <2>4. NewCaches
    BY <2>1 DEF NewCaches
  <2>5. TypeOK'
    BY <2>1 DEF TypeOK, command, ghost
  <2>6. QED
    BY <2>3, <2>4, <2>5
<1>5. CASE CleanupFails(r)
  <2>1. PICK rewritten \in SUBSET dropped[r] : row' = row \ rewritten
    BY <1>5 DEF CleanupFails
  <2>2. /\ dropped' = [dropped EXCEPT ![r] = {}] /\ life' = [life EXCEPT ![r] = "up"]
        /\ IF life[r] = "cleaning" THEN UNCHANGED <<root, cache>>
           ELSE /\ root' = [root EXCEPT ![r] = Memory]
                /\ cache' = [cache EXCEPT ![r] = [id \in Ids |-> "none"]]
        /\ life[r] \in {"loaded", "opening", "cleaning"}
        /\ UNCHANGED <<file, swept, command, call, ghost>>
    BY <1>5 DEF CleanupFails
  <2>3. dropped[r] \subseteq swept
    BY DEF LifeInv
  <2>4. /\ root' \in [Runners -> Roots \cup {Memory}]
        /\ cache' \in [Runners -> [Ids -> Status \cup {"none"}]]
        /\ \A s \in Runners : s # r \/ Ready(r) =>
             root'[s] = root[s] /\ \A id \in Ids : cache'[s][id] = cache[s][id]
        /\ ~Ready(r) => \A id \in Ids : cache'[r][id] = "none"
    <3>1. CASE life[r] = "cleaning"
      BY <2>2, <3>1 DEF TypeOK, Ready
    <3>2. CASE life[r] # "cleaning"
      <4>1. /\ root' = [root EXCEPT ![r] = Memory]
            /\ cache' = [cache EXCEPT ![r] = [id \in Ids |-> "none"]]
            /\ ~Ready(r)
        BY <2>2, <3>2 DEF Ready
      <4>2. QED
        BY <4>1 DEF TypeOK
    <3>3. QED
      BY <3>1, <3>2
  <2>5. \A s \in Runners : Ready(s) => Ready(s)'
    BY <2>2 DEF Ready, TypeOK
  <2>6. HistoryFrame
    BY <2>1, <2>2, <2>3, <2>4, <2>5 DEF HistoryFrame
  <2>7. NewCaches
    BY <2>4 DEF NewCaches
  <2>8. TypeOK'
    BY <2>1, <2>2, <2>4 DEF TypeOK, command, ghost
  <2>9. QED
    BY <2>6, <2>7, <2>8
<1>6. QED
  BY <1>1, <1>2, <1>3, <1>4, <1>5 DEF HistoryStep

\* Whoever owns a command is in use, so what is taken from a record is retired.
LEMMA HistoryRecord ==
  ASSUME TypeOK, LifeInv, NEW id \in Ids, RecordOK(id), HistoryFrame, NewCaches
  PROVE  RecordOK(id)'
<1>1. CommandOK(id) /\ DiskOK(id) /\ KeptOK(id) /\ \A r \in Runners : CacheOK(r, id)
  BY DEF RecordOK
<1>2. UNCHANGED <<owner, waited, work, exit, outcome, returned, tracked, answer>>
  BY DEF HistoryFrame, command
<1>3. owner[id] # NoOne =>
        owner[id] \in Runners /\ Ready(owner[id]) /\ root'[owner[id]] = root[owner[id]]
  BY DEF LifeInv, TypeOK, HistoryFrame
<1>4. owner[id] # NoOne => (Persistent(id)' <=> Persistent(id))
  BY <1>2, <1>3 DEF Persistent
<1>5. /\ file'[id] = file[id] \/ (file'[id] = "absent" /\ id \in swept')
      /\ id \in row' => id \in row
      /\ id \notin swept' => /\ id \notin swept /\ file'[id] = file[id]
                             /\ id \in row => id \in row'
  BY DEF HistoryFrame
<1>6. CommandOK(id)'
  BY <1>1, <1>2, <1>4 DEF CommandOK, Over
<1>7. DiskOK(id)'
  BY <1>1, <1>2, <1>4, <1>5 DEF DiskOK, Over, Final
<1>8. KeptOK(id)'
  <2>1. SUFFICES ASSUME id \notin swept' PROVE KeptOK(id)'
    BY DEF KeptOK
  <2>2. owner[id] # NoOne => cache'[owner[id]][id] = cache[owner[id]][id]
    BY <1>3, <2>1 DEF HistoryFrame
  <2>3. waited[id] \/ work[id] \in {"opened", "written"} \/ returned[id] \in Final =>
          owner[id] # NoOne
    BY <1>1 DEF CommandOK, Over
  <2>4. QED
    BY <1>1, <1>2, <1>4, <1>5, <2>1, <2>2, <2>3 DEF KeptOK
<1>9. ASSUME NEW r \in Runners PROVE CacheOK(r, id)'
  <2>1. CASE cache'[r][id] = "none"
    BY <2>1 DEF CacheOK, Final
  <2>2. CASE cache'[r][id] = cache[r][id] /\ root'[r] = root[r]
    <3>1. owner[id] # NoOne => (SharesLog(r, owner[id])' <=> SharesLog(r, owner[id]))
      BY <1>2, <1>3, <2>2 DEF SharesLog
    <3>2. QED
      BY <1>1, <1>2, <1>5, <2>2, <3>1 DEF CacheOK, Over
  <2>3. CASE cache'[r][id] = Stored(root'[r], id) /\ root'[r] # Memory /\ cache'[r][id] # "none"
    <3>1. /\ cache'[r][id] = file[id] /\ file[id] \in Status /\ owner[id] # NoOne
          /\ root[owner[id]] = root'[r]
      BY <2>3 DEF Stored
    <3>2. SharesLog(r, owner[id])'
      BY <1>2, <1>3, <2>3, <3>1 DEF SharesLog
    <3>3. QED
      BY <1>1, <1>2, <1>5, <2>3, <3>1, <3>2 DEF CacheOK, DiskOK, Over, Final
  <2>4. QED
    BY <2>1, <2>2, <2>3 DEF HistoryFrame, NewCaches
<1>10. QED
  BY <1>6, <1>7, <1>8, <1>9 DEF RecordOK

\* Looks keep what is known of a record.
LEMMA LooksRecord ==
  ASSUME TypeOK, NEW id \in Ids, RecordOK(id), Quiet, Looks
  PROVE  RecordOK(id)'
<1>1. CommandOK(id) /\ DiskOK(id) /\ KeptOK(id) /\ \A r \in Runners : CacheOK(r, id)
  BY DEF RecordOK
<1>2. CommandOK(id)' /\ DiskOK(id)'
  BY <1>1 DEF CommandOK, DiskOK, Quiet, Over, Persistent
<1>3. waited[id] \/ returned[id] \in Final => owner[id] \in Runners
  BY <1>1 DEF CommandOK, Over, TypeOK
<1>4. KeptOK(id)'
  <2>1. SUFFICES ASSUME id \notin swept PROVE KeptOK(id)'
    BY DEF KeptOK, Quiet
  <2>2. waited[id] => cache'[owner[id]][id] # "none"
    BY <1>1, <1>3, <2>1 DEF KeptOK, Looks, Final
  <2>3. returned[id] \in Final => cache'[owner[id]][id] \in Final
    BY <1>1, <1>3, <2>1 DEF KeptOK, Looks
  <2>4. QED
    BY <1>1, <2>1, <2>2, <2>3 DEF KeptOK, Quiet, Persistent
<1>5. ASSUME NEW r \in Runners PROVE CacheOK(r, id)'
  <2>1. SharesLog(r, owner[id])' <=> SharesLog(r, owner[id])
    BY DEF SharesLog, Quiet
  <2>2. CASE cache'[r][id] = cache[r][id]
    BY <1>1, <2>1, <2>2 DEF CacheOK, Quiet, Over
  <2>3. CASE cache'[r][id] = Known(r, id) /\ Known(r, id) \in Final
    <3>1. /\ Known(r, id) = outcome[id] /\ owner[id] # NoOne /\ SharesLog(r, owner[id])
          /\ work[id] = "written" \/ Over(id)
          /\ file[id] \in {"absent", outcome[id]}
      BY <2>3, KnownFinal
    <3>2. QED
      BY <2>1, <2>3, <3>1 DEF CacheOK, Quiet, Over, Final
  <2>4. QED
    BY <2>2, <2>3 DEF Looks
<1>6. QED
  BY <1>2, <1>4, <1>5 DEF RecordOK

\* What a history that is opened or cleaned up is retiring counts as retired, and
\* nobody who owns a command loses its history.
LEMMA HistoryLife ==
  ASSUME TypeOK, LifeInv, NEW r \in Runners, HistoryStep(r)
  PROVE  LifeInv'
<1>1. HistoryFrame
  BY HistoryFacts
<1>2. UNCHANGED owner /\ \A id \in Ids : owner[id] # NoOne => Ready(owner[id])'
  BY <1>1 DEF HistoryFrame, LifeInv, command, TypeOK
<1>3. \A s \in Runners : dropped'[s] \subseteq dropped[s] \/ dropped'[s] \subseteq swept'
  <2>1. CASE CleanupRemoves(r)
    <3>1. PICK retire \in SUBSET {id \in row : root[owner[id]] = root[r]} :
            dropped' = [dropped EXCEPT ![r] = retire] /\ swept' = swept \cup retire
      BY <2>1 DEF CleanupRemoves
    <3>2. QED
      BY <3>1 DEF TypeOK
  <2>2. CASE CleanupRewrites(r) \/ CleanupFails(r)
    <3>1. dropped' = [dropped EXCEPT ![r] = {}]
      BY <2>2 DEF CleanupRewrites, CleanupFails
    <3>2. QED
      BY <3>1 DEF TypeOK
  <2>3. CASE Open(r) \/ OpenInMemory(r)
    BY <2>3 DEF Open, OpenInMemory
  <2>4. QED
    BY <2>1, <2>2, <2>3 DEF HistoryStep
<1>4. \A s \in Runners : dropped'[s] \subseteq swept'
  BY <1>1, <1>3 DEF HistoryFrame, LifeInv
<1>5. \A s \in Runners : life'[s] = "unmade" => life[s] = "unmade"
  BY DEF HistoryStep, Open, OpenInMemory, CleanupRemoves, CleanupRewrites, CleanupFails,
     TypeOK
<1>6. \A s \in Runners : life'[s] = "unmade" => root'[s] = root[s]
  <2>1. CASE Open(r)
    BY <2>1 DEF Open, TypeOK
  <2>2. CASE CleanupFails(r)
    BY <2>2 DEF CleanupFails, TypeOK
  <2>3. QED
    BY <2>1, <2>2 DEF HistoryStep, OpenInMemory, CleanupRemoves, CleanupRewrites
<1>7. QED
  BY <1>2, <1>4, <1>5, <1>6 DEF LifeInv

-----------------------------------------------------------------------------
(* What becomes of a command that has started, of a record that is put, and of a
   history that is in use. *)

Settled ==
  /\ \A r \in Runners : Ready(r) => Ready(r)' /\ root'[r] = root[r]
  /\ swept \subseteq swept'
  /\ \A id \in Ids : owner[id] # NoOne =>
       /\ owner'[id] = owner[id] /\ waited'[id] = waited[id]
       /\ Rewritten(id) => Rewritten(id)'
       /\ Over(id) => Over(id)'
       /\ work[id] = "gone" => work'[id] = "gone"
       /\ work[id] \notin {"unborn", "recorded"} =>
            work'[id] \notin {"unborn", "recorded"} /\ (id \in tracked' => id \in tracked)
       /\ answer[id] \in Final => answer'[id] = answer[id]
  /\ \A id \in Ids : Over(id) =>
       /\ file'[id] = file[id] \/ file'[id] = "absent"
       /\ id \in row' => id \in row
       /\ \A r \in Runners : Ready(r) =>
            \/ cache'[r][id] \in {cache[r][id], "none"}
            \/ cache'[r][id] = Known(r, id) /\ Known(r, id) \in Final

\* A command goes forward; the others stay as they are.
LEMMA CommandSettles ==
  ASSUME TypeOK, NEW id \in Ids, CommandOK(id), CommandStep(id)
  PROVE  Settled
<1>1. CommandFrame(id)
  BY CommandFacts
<1>2. UNCHANGED <<life, root, swept, owner, waited>>
  BY <1>1 DEF CommandFrame
<1>3. ASSUME NEW j \in Ids, j # id
      PROVE  /\ work'[j] = work[j] /\ file'[j] = file[j] /\ (j \in row' <=> j \in row)
             /\ (j \in tracked' <=> j \in tracked) /\ answer'[j] = answer[j]
             /\ \A r \in Runners : cache'[r][j] = cache[r][j]
  BY <1>1, <1>3 DEF CommandFrame
<1>4. /\ Rewritten(id) => Rewritten(id)'
      /\ Over(id) => Over(id)'
      /\ work[id] = "gone" => work'[id] = "gone"
      /\ work[id] \notin {"unborn", "recorded"} =>
           work'[id] \notin {"unborn", "recorded"} /\ (id \in tracked' => id \in tracked)
      /\ answer[id] \in Final => answer'[id] = answer[id]
      /\ Over(id) => UNCHANGED <<file, row, cache>>
  <2>1. CASE Track(id)
    BY <2>1 DEF Track, Over, Rewritten, Executing, Final, TypeOK, log
  <2>2. CASE BudgetRunsOut(id)
    BY <2>2 DEF BudgetRunsOut, Over, Rewritten, Executing, Final, TypeOK, log
  <2>3. CASE Answer(id)
    BY <2>3 DEF Answer, DoneClosed, Over, Rewritten, Executing, Final, TypeOK, log
  <2>4. CASE PrepareFails(id)
    BY <2>4 DEF PrepareFails, Executed, Over, Rewritten, Executing, Final, TypeOK, log
  <2>5. CASE Launch(id)
    BY <2>5 DEF Launch, Executed, Over, Rewritten, Executing, Final, TypeOK, log
  <2>6. CASE RunReturns(id)
    BY <2>6 DEF RunReturns, Executed, Over, Rewritten, Executing, Final, TypeOK, log
  <2>7. CASE RunWedges(id)
    BY <2>7 DEF RunWedges, Executed, Over, Rewritten, Executing, Final, TypeOK, log
  <2>8. CASE Classify(id)
    BY <2>8 DEF Classify, Executed, Over, Rewritten, Executing, Final, TypeOK, log
  <2>9. CASE PublishOpens(id)
    BY <2>9 DEF PublishOpens, Executed, Over, Rewritten, Executing, Final, TypeOK, log
  <2>10. CASE PublishWrites(id)
    BY <2>10 DEF PublishWrites, Executed, Over, Rewritten, Executing, Final, TypeOK, log
  <2>11. CASE Publish(id)
    BY <2>11 DEF Publish, Returns, Executed, Over, Rewritten, Final, TypeOK
  <2>12. CASE PublishFails(id)
    BY <2>12 DEF PublishFails, Executed, Returns, PutUnderWay, Over, Rewritten,
       Executing, Final, TypeOK, log
  <2>13. CASE Untrack(id)
    BY <2>13 DEF Untrack, Over, Rewritten, Executing, Final, TypeOK, log
  <2>14. CASE CloseDone(id)
    BY <2>14 DEF CloseDone, Over, Rewritten, Executing, Final, TypeOK, log
  <2>15. CASE Expire(id)
    BY <2>15 DEF Expire, Over, Rewritten, Executing, Final, TypeOK, log
  <2>16. CASE CallerCancels(id)
    BY <2>16 DEF CallerCancels, Over, Rewritten, Executing, Final, TypeOK, log
  <2>17. QED
    BY <2>1, <2>2, <2>3, <2>4, <2>5, <2>6, <2>7, <2>8, <2>9, <2>10, <2>11, <2>12,
       <2>13, <2>14, <2>15, <2>16 DEF CommandStep
<1>5. QED
  BY <1>2, <1>3, <1>4 DEF Settled, Ready, Over, Rewritten

\* Nothing has settled of a command that has not started.
LEMMA StartSettles ==
  ASSUME TypeOK, NEW r \in Runners, NEW id \in Ids, CommandOK(id), StartFrame(r, id)
  PROVE  Settled
<1>1. ~Over(id) /\ owner[id] = NoOne
  BY DEF StartFrame, CommandOK, Over
<1>2. QED
  BY <1>1 DEF StartFrame, Settled, Ready, Over, Rewritten

\* Records only go away.
LEMMA HistorySettles ==
  ASSUME TypeOK, HistoryFrame
  PROVE  Settled
BY DEF HistoryFrame, command, Settled, Over, Rewritten

\* A look finds what is settled, and leaves it.
LEMMA LooksSettle ==
  ASSUME TypeOK, Quiet, Looks
  PROVE  Settled
BY DEF Quiet, Looks, Settled, Ready, Over, Rewritten

-----------------------------------------------------------------------------
(* What the clients of Abort and WaitForHistory hold and were told. *)

\* A runner that shares an owner's log goes on sharing it.
LEMMA SharesKept ==
  ASSUME TypeOK, LifeInv, Settled, NEW r \in Runners, NEW id \in Ids, Ready(r),
         owner[id] # NoOne, SharesLog(r, owner[id])
  PROVE  SharesLog(r, owner[id])' /\ owner'[id] = owner[id]
<1>1. owner[id] \in Runners /\ Ready(owner[id])
  BY DEF LifeInv, TypeOK
<1>2. root'[r] = root[r] /\ root'[owner[id]] = root[owner[id]] /\ owner'[id] = owner[id]
  BY <1>1 DEF Settled
<1>3. QED
  BY <1>2 DEF SharesLog

\* A call that nobody moves still is about what it was about.
LEMMA CallKept ==
  ASSUME TypeOK, LifeInv, Settled, NEW c \in Clients, CallKnows(c), call'[c] = call[c]
  PROVE  CallKnows(c)'
<1>1. CASE call[c].at = "idle"
  BY <1>1 DEF CallKnows
<1>2. CASE call[c].at # "idle"
  <2> DEFINE id == call[c].id
             r == call[c].runner
  <2>1. /\ id \in Ids /\ r \in Runners /\ owner[id] # NoOne /\ Ready(r)
        /\ call[c].at \in {"cancel", "await", "read"} => waited[id] /\ r = owner[id]
        /\ call[c].at = "read" => work[id] = "gone"
        /\ call[c].at \in {"attach", "wait"} => waited[id] /\ SharesLog(r, owner[id])
        /\ call[c].attached => r = owner[id]
    BY <1>2 DEF CallKnows
  <2>2. /\ owner'[id] = owner[id] /\ waited'[id] = waited[id] /\ Ready(r)'
        /\ work[id] = "gone" => work'[id] = "gone"
    BY <2>1 DEF Settled
  <2>3. SharesLog(r, owner[id]) => SharesLog(r, owner[id])'
    BY <2>1, SharesKept
  <2>4. QED
    BY <2>1, <2>2, <2>3 DEF CallKnows
<1>3. QED
  BY <1>1, <1>2

\* The same for all the clients but one.
LEMMA OthersKnow ==
  ASSUME TypeOK, LifeInv, Settled, CallInv, NEW c \in Clients, CallKnows(c)',
         \A d \in Clients : d # c => call'[d] = call[d]
  PROVE  CallInv'
BY CallKept DEF CallInv

\* A call begins on a runner that is ready, and goes on to cancel, or to wait, where
\* it has found the command.
LEMMA BeginKnows ==
  ASSUME TypeOK, LifeInv, RecordInv, CallInv, NEW c \in Clients, NEW r \in Runners,
         NEW id \in Ids, CallBegins(c, r, id)
  PROVE  CallInv'
<1>1. /\ Quiet /\ Looks /\ ctx' = ctx /\ UNCHANGED ghost
      /\ call' \in [Clients -> Call] /\ \A d \in Clients : d # c => call'[d] = call[d]
      /\ owner[id] # NoOne /\ Ready(r)
      /\ \/ call' = call
         \/ /\ call'[c].runner = r /\ call'[c].id = id /\ ~call'[c].attached
            /\ \/ call'[c].at = "cancel" /\ Tracks(r, id)
               \/ call'[c].at = "lookup"
               \/ call'[c].at = "attach" /\ Known(r, id) = "running"
  BY BeginFacts
<1>2. Settled
  BY <1>1, LooksSettle
<1>3. CASE call' = call
  BY <1>2, <1>3, CallKept DEF CallInv
<1>4. Ready(r)' /\ owner'[id] = owner[id] /\ waited'[id] = waited[id]
      /\ (SharesLog(r, owner[id])' <=> SharesLog(r, owner[id]))
  BY <1>1 DEF Quiet, Ready, SharesLog
<1>5. RecordOK(id) /\ CommandOK(id) /\ DiskOK(id) /\ CacheOK(r, id)
  BY DEF RecordInv, RecordOK
<1>6. CASE call'[c].runner = r /\ call'[c].id = id /\ ~call'[c].attached
           /\ call'[c].at = "cancel" /\ Tracks(r, id)
  <2>1. waited[id] /\ owner[id] = r
    BY <1>5, <1>6 DEF Tracks, CommandOK
  <2>2. CallKnows(c)'
    BY <1>1, <1>4, <1>6, <2>1 DEF CallKnows
  <2>3. QED
    BY <1>1, <1>2, <2>2, OthersKnow
<1>7. CASE call'[c].runner = r /\ call'[c].id = id /\ ~call'[c].attached
           /\ call'[c].at = "lookup"
  <2>1. CallKnows(c)'
    BY <1>1, <1>4, <1>7 DEF CallKnows
  <2>2. QED
    BY <1>1, <1>2, <2>1, OthersKnow
<1>8. CASE call'[c].runner = r /\ call'[c].id = id /\ ~call'[c].attached
           /\ call'[c].at = "attach" /\ Known(r, id) = "running"
  <2>1. waited[id] /\ SharesLog(r, owner[id])
    <3>1. CASE cache[r][id] = "running"
      BY <1>5, <3>1 DEF CacheOK
    <3>2. CASE OnDisk(r, id) = "running"
      <4>1. file[id] = "running" /\ SharesLog(r, owner[id])
        BY <1>5, <3>2, OnDiskFacts
      <4>2. QED
        BY <1>5, <4>1 DEF DiskOK
    <3>3. QED
      BY <1>8, <3>1, <3>2, KnownCases
  <2>2. CallKnows(c)'
    BY <1>1, <1>4, <1>8, <2>1 DEF CallKnows
  <2>3. QED
    BY <1>1, <1>2, <2>2, OthersKnow
<1>9. QED
  BY <1>1, <1>3, <1>6, <1>7, <1>8

\* A call that goes on is about the same command on the same runner.
LEMMA StepKnows ==
  ASSUME TypeOK, LifeInv, CallInv, NEW c \in Clients, CallStep(c)
  PROVE  CallInv'
<1>1. /\ Quiet /\ Looks /\ \A d \in Clients : d # c => call'[d] = call[d]
      /\ call[c].at # "idle" /\ CallMoves(c)
  BY CallFacts
<1>2. Settled
  BY <1>1, LooksSettle
<1>0. PICK id \in Ids, r \in Runners : id = call[c].id /\ r = call[c].runner
  BY <1>1, CallOf
<1>3. /\ id \in Ids /\ r \in Runners /\ owner[id] # NoOne /\ Ready(r)
      /\ call[c].at \in {"cancel", "await", "read"} => waited[id] /\ r = owner[id]
      /\ call[c].at \in {"attach", "wait"} => waited[id] /\ SharesLog(r, owner[id])
      /\ call[c].attached => r = owner[id]
  BY <1>0, <1>1 DEF CallInv, CallKnows
<1>4. /\ Ready(r)' /\ owner'[id] = owner[id] /\ waited'[id] = waited[id] /\ work'[id] = work[id]
      /\ (SharesLog(r, owner[id])' <=> SharesLog(r, owner[id]))
  BY <1>1, <1>3 DEF Quiet, Ready, SharesLog
<1>5. CASE call'[c] = Idle
  <2>1. CallKnows(c)'
    BY <1>5 DEF CallKnows, Idle
  <2>2. QED
    BY <1>1, <1>2, <2>1, OthersKnow
<1>6. CASE call'[c] # Idle
  <2>1. CallKnows(c)'
    BY <1>0, <1>1, <1>3, <1>4, <1>6 DEF CallMoves, CallKnows, DoneClosed, Tracks
  <2>2. QED
    BY <1>1, <1>2, <2>1, OthersKnow
<1>7. QED
  BY <1>5, <1>6

\* An Abort that was answered ok stays true.
LEMMA FinalKept ==
  ASSUME TypeOK, LifeInv, Settled, NEW r \in Runners, NEW id \in Ids, FinalOK(r, id)
  PROVE  FinalOK(r, id)'
<1>1. /\ waited[id] /\ owner[id] = r /\ work[id] = "gone" /\ Over(id) /\ owner[id] # NoOne
      /\ cache[r][id] # "running" /\ OnDisk(r, id) # "running" /\ Ready(r)
  BY DEF FinalOK, Over, LifeInv
<1>2. /\ waited'[id] /\ owner'[id] = r /\ work'[id] = "gone" /\ root'[r] = root[r]
      /\ file'[id] = file[id] \/ file'[id] = "absent"
      /\ id \in row' => id \in row
      /\ cache'[r][id] \in {cache[r][id], "none"} \cup Final
  BY <1>1 DEF Settled
<1>3. cache'[r][id] # "running"
  BY <1>1, <1>2 DEF Final
<1>4. OnDisk(r, id)' # "running"
  BY <1>1, <1>2 DEF OnDisk, Stored
<1>5. QED
  BY <1>2, <1>3, <1>4 DEF FinalOK

\* So does what a WaitForHistory that gave up has seen.
LEMMA CutShortKept ==
  ASSUME TypeOK, LifeInv, Settled, NEW r \in Runners, NEW id \in Ids, CommandOK(id),
         CutShortOK(r, id)
  PROVE  CutShortOK(r, id)'
<1>1. waited[id] /\ Rewritten(id) /\ owner[id] # NoOne
  BY DEF CutShortOK, CommandOK
<1>2. waited'[id] /\ Rewritten(id)' /\ owner'[id] = owner[id]
  BY <1>1 DEF Settled
<1>3. ASSUME r = owner[id] PROVE Over(id)' /\ Known(r, id)' \notin Final
  <2>1. Over(id) /\ Known(r, id) \notin Final /\ Ready(r)
    BY <1>1, <1>3 DEF CutShortOK, LifeInv
  <2>2. cache[r][id] \notin Final /\ OnDisk(r, id) \notin Final
    BY <2>1, KnownCases
  <2>3. /\ Over(id)' /\ root'[r] = root[r]
        /\ file'[id] = file[id] \/ file'[id] = "absent"
        /\ id \in row' => id \in row
        /\ cache'[r][id] \in {cache[r][id], "none"}
    BY <1>1, <2>1 DEF Settled
  <2>4. cache'[r][id] \notin Final
    BY <2>2, <2>3 DEF Final
  <2>5. OnDisk(r, id)' \notin Final
    <3>1. OnDisk(r, id)' \in Final => file'[id] \in Final /\ id \in row'
      BY DEF OnDisk, Stored, Final
    <3>2. file'[id] \in Final => file[id] \in Final
      BY <2>3 DEF Final
    <3>3. file[id] \in Final /\ id \in row => OnDisk(r, id) \in Final
      BY <1>1, <1>3 DEF OnDisk, Stored, Status
    <3>4. QED
      BY <2>2, <2>3, <3>1, <3>2, <3>3
  <2>6. Known(r, id)' \notin Final
    BY <2>4, <2>5 DEF Known, Final
  <2>7. QED
    BY <2>3, <2>6
<1>4. QED
  BY <1>2, <1>3 DEF CutShortOK

\* What was told stays true.
LEMMA PastKept ==
  ASSUME TypeOK, LifeInv, RecordInv, Settled, PastInv, NEW r \in Runners, NEW id \in Ids
  PROVE  /\ <<r, id>> \in final => FinalOK(r, id)'
         /\ <<r, id>> \in cutShort /\ id \notin swept' => CutShortOK(r, id)'
<1>1. CommandOK(id)
  BY DEF RecordInv, RecordOK
<1>2. id \notin swept' => id \notin swept
  BY DEF Settled
<1>3. QED
  BY <1>1, <1>2, FinalKept, CutShortKept DEF PastInv

\* Abort says ok on the record its runner has.
LEMMA ReadIsFinal ==
  ASSUME TypeOK, NEW r \in Runners, NEW id \in Ids, RecordOK(id), waited[id], owner[id] = r,
         work[id] = "gone", Known(r, id) # "running", Remember(r, id), Quiet
  PROVE  FinalOK(r, id)'
<1>1. /\ cache' = [cache EXCEPT ![r][id] = IF Known(r, id) \in Final THEN Known(r, id) ELSE @]
  BY DEF Remember
<1>2. Known(r, id) \in Status \cup {"none"}
  BY KnownType
<1>3. OnDisk(r, id)' = OnDisk(r, id)
  BY DEF OnDisk, Stored, Quiet
<1>4. CASE Known(r, id) \in Final
  <2>1. cache'[r][id] = Known(r, id) /\ cache'[r][id] # "running"
    BY <1>1, <1>4 DEF TypeOK, Final
  <2>2. file[id] \in {"absent", outcome[id]} /\ outcome[id] \in Final
    BY <1>4, KnownFinal
  <2>3. OnDisk(r, id) # "running"
    BY <2>2 DEF OnDisk, Stored, Final
  <2>4. QED
    BY <1>3, <2>1, <2>3 DEF FinalOK, Quiet
<1>5. CASE Known(r, id) = "none"
  <2>1. cache[r][id] = "none" /\ OnDisk(r, id) = "none"
    BY <1>5, KnownCases
  <2>2. cache'[r][id] = "none"
    BY <1>1, <1>5, <2>1 DEF TypeOK, Final
  <2>3. QED
    BY <1>3, <2>1, <2>2 DEF FinalOK, Quiet
<1>6. QED
  BY <1>2, <1>4, <1>5 DEF Status

\* WaitForHistory gives up on what it no longer finds.
LEMMA GoneIsRewritten ==
  ASSUME TypeOK, NEW r \in Runners, NEW id \in Ids, RecordOK(id), waited[id],
         SharesLog(r, owner[id]), id \notin swept, Known(r, id) = "none"
  PROVE  r # owner[id] /\ Rewritten(id)
<1>1. CommandOK(id) /\ DiskOK(id) /\ KeptOK(id)
  BY DEF RecordOK
<1>2. cache[r][id] = "none" /\ OnDisk(r, id) = "none"
  BY KnownCases
<1>3. r # owner[id]
  BY <1>1, <1>2 DEF KeptOK
<1>4. root[r] = root[owner[id]] /\ Persistent(id)
  BY <1>3 DEF SharesLog, Persistent
<1>5. id \in row /\ file[id] # "absent" /\ owner[id] # NoOne
  BY <1>1, <1>4 DEF KeptOK, CommandOK
<1>6. file[id] \notin Status
  BY <1>2, <1>4, <1>5 DEF OnDisk, Stored, Status, Final
<1>7. file[id] = "torn"
  BY <1>5, <1>6 DEF TypeOK
<1>8. QED
  BY <1>1, <1>3, <1>7 DEF DiskOK, Over, Rewritten

\* A call tells what stays true.
LEMMA TellsPast ==
  ASSUME TypeOK, LifeInv, RecordInv, CallInv, PastInv, NEW c \in Clients, CallStep(c)
  PROVE  PastInv'
<1>1. Quiet /\ Looks /\ call[c].at # "idle" /\ CallTells(c)
  BY CallFacts
<1>2. Settled
  BY <1>1, LooksSettle
<1>0. PICK i \in Ids, q \in Runners : i = call[c].id /\ q = call[c].runner
  BY <1>1, CallOf
<1>3. /\ i \in Ids /\ q \in Runners /\ owner[i] # NoOne /\ Ready(q)
      /\ call[c].at = "read" => waited[i] /\ q = owner[i] /\ work[i] = "gone"
      /\ call[c].at = "wait" => waited[i] /\ SharesLog(q, owner[i])
      /\ call[c].attached => q = owner[i]
  BY <1>0, <1>1 DEF CallInv, CallKnows
<1>4. RecordOK(i)
  BY <1>3 DEF RecordInv
<1>5. \A r \in Runners, id \in Ids :
        /\ <<r, id>> \in final => FinalOK(r, id)'
        /\ <<r, id>> \in cutShort /\ id \notin swept' => CutShortOK(r, id)'
  BY <1>2, PastKept
<1>6. CASE UNCHANGED ghost
  BY <1>5, <1>6 DEF PastInv, ghost
<1>7. CASE /\ call[c].at = "read" /\ Known(q, i) # "running" /\ Remember(q, i)
           /\ final' = final \cup {<<q, i>>} /\ cutShort' = cutShort
  <2>1. FinalOK(q, i)'
    BY <1>1, <1>3, <1>4, <1>7, ReadIsFinal
  <2>2. QED
    BY <1>5, <1>7, <2>1 DEF PastInv
<1>8. CASE /\ call[c].at = "wait" /\ Known(q, i) \notin Final
           /\ (call[c].attached /\ DoneClosed(i)) \/ Known(q, i) = "none"
           /\ cutShort' = cutShort \cup {<<q, i>>} /\ final' = final
  <2>1. ASSUME i \notin swept' PROVE CutShortOK(q, i)'
    <3>1. i \notin swept /\ UNCHANGED <<waited, owner, work>>
      BY <1>1, <2>1 DEF Quiet
    <3>2. Rewritten(i) /\ (q = owner[i] => Over(i))
      <4>1. CASE call[c].attached /\ DoneClosed(i)
        BY <4>1 DEF DoneClosed, Rewritten, Over
      <4>2. CASE Known(q, i) = "none"
        BY <1>3, <1>4, <1>8, <3>1, <4>2, GoneIsRewritten
      <4>3. QED
        BY <1>8, <4>1, <4>2
    <3>3. CutShortOK(q, i)
      BY <1>3, <1>8, <3>2 DEF CutShortOK
    <3>4. CommandOK(i)
      BY <1>4 DEF RecordOK
    <3>5. QED
      BY <1>2, <1>3, <3>3, <3>4, CutShortKept
  <2>2. QED
    BY <1>5, <1>8, <2>1 DEF PastInv
<1>9. QED
  BY <1>0, <1>1, <1>6, <1>7, <1>8 DEF CallTells

-----------------------------------------------------------------------------
(* The theorems. *)

\* A look, or nothing, keeps the invariant if it leaves the calls alone.
LEMMA LooksKeep ==
  ASSUME RunnerInd, Quiet, Looks, UNCHANGED <<ctx, call, ghost>>
  PROVE  RunnerInd' /\ Settled
<1>1. TypeOK /\ LifeInv /\ RecordInv /\ CallInv /\ PastInv
  BY DEF RunnerInd
<1>2. Settled
  BY <1>1, LooksSettle
<1>3. TypeOK'
  BY <1>1 DEF TypeOK, Quiet, Looks, ghost
<1>4. LifeInv'
  BY <1>1 DEF LifeInv, Quiet, Ready
<1>5. RecordInv'
  BY <1>1, LooksRecord DEF RecordInv
<1>6. CallInv'
  BY <1>1, <1>2, CallKept DEF CallInv
<1>7. PastInv'
  BY <1>1, <1>2, PastKept DEF PastInv, ghost
<1>8. QED
  BY <1>2, <1>3, <1>4, <1>5, <1>6, <1>7 DEF RunnerInd

\* So does a step that leaves calls and what was told alone, if it keeps the rest.
LEMMA RestKeeps ==
  ASSUME RunnerInd, TypeOK', LifeInv', RecordInv', Settled, UNCHANGED <<call, ghost>>
  PROVE  RunnerInd'
<1>1. TypeOK /\ LifeInv /\ RecordInv /\ CallInv /\ PastInv
  BY DEF RunnerInd
<1>2. CallInv'
  BY <1>1, CallKept DEF CallInv
<1>3. PastInv'
  BY <1>1, PastKept DEF PastInv, ghost
<1>4. QED
  BY <1>2, <1>3 DEF RunnerInd

\* Every step keeps the invariant, and what is settled.
LEMMA HistoryKeeps ==
  ASSUME RunnerInd, NEW r \in Runners, HistoryStep(r)
  PROVE  RunnerInd' /\ Settled
<1>1. TypeOK /\ LifeInv /\ RecordInv
  BY DEF RunnerInd
<1>2. HistoryFrame /\ NewCaches /\ TypeOK' /\ LifeInv'
  BY <1>1, HistoryFacts, HistoryLife
<1>3. RecordInv'
  BY <1>1, <1>2, HistoryRecord DEF RecordInv
<1>4. Settled /\ UNCHANGED <<call, ghost>>
  BY <1>1, <1>2, HistorySettles DEF HistoryFrame
<1>5. QED
  BY <1>2, <1>3, <1>4, RestKeeps

LEMMA StartKeeps ==
  ASSUME RunnerInd, NEW r \in Runners, NEW id \in Ids, StartStep(r, id)
  PROVE  RunnerInd' /\ Settled
<1>1. TypeOK /\ LifeInv /\ RecordInv /\ \A j \in Ids : RecordOK(j) /\ CommandOK(j)
  BY DEF RunnerInd, RecordInv, RecordOK
<1>2. StartFrame(r, id) /\ TypeOK'
  BY <1>1, StartFacts
<1>3. Settled /\ UNCHANGED <<call, ghost>>
  BY <1>1, <1>2, StartSettles DEF StartFrame
<1>4. LifeInv'
  BY <1>1, <1>2 DEF StartFrame, LifeInv, Ready
<1>5. ASSUME NEW j \in Ids PROVE RecordOK(j)'
  <2>1. CASE j = id
    BY <1>1, <2>1, StartRecord
  <2>2. CASE j # id
    <3>1. Same(j) /\ UNCHANGED root /\ \A s \in Runners : cache'[s][j] = cache[s][j]
      BY <1>2, <2>2 DEF StartFrame, Same
    <3>2. QED
      BY <1>1, <3>1, SameKept
  <2>3. QED
    BY <2>1, <2>2
<1>6. QED
  BY <1>2, <1>3, <1>4, <1>5, RestKeeps DEF RecordInv

LEMMA CommandKeeps ==
  ASSUME RunnerInd, NEW id \in Ids, CommandStep(id)
  PROVE  RunnerInd' /\ Settled
<1>1. TypeOK /\ LifeInv /\ RecordInv /\ \A j \in Ids : RecordOK(j) /\ CommandOK(j)
  BY DEF RunnerInd, RecordInv, RecordOK
<1>2. CommandFrame(id) /\ CommandTypes
  BY <1>1, CommandFacts
<1>3. TypeOK'
  BY <1>1, <1>2 DEF TypeOK, CommandFrame, CommandTypes, ghost
<1>4. Settled /\ UNCHANGED <<call, ghost>>
  BY <1>1, <1>2, CommandSettles DEF CommandFrame
<1>5. LifeInv'
  BY <1>1, <1>2 DEF CommandFrame, LifeInv, Ready
<1>6. ASSUME NEW j \in Ids PROVE RecordOK(j)'
  <2>1. CASE j = id
    BY <1>1, <2>1, CommandRecord
  <2>2. CASE j # id
    <3>1. Same(j) /\ UNCHANGED root /\ \A s \in Runners : cache'[s][j] = cache[s][j]
      BY <1>2, <2>2 DEF CommandFrame, Same
    <3>2. QED
      BY <1>1, <3>1, SameKept
  <2>3. QED
    BY <2>1, <2>2
<1>7. QED
  BY <1>3, <1>4, <1>5, <1>6, RestKeeps DEF RecordInv

LEMMA BeginKeepsRunners ==
  ASSUME RunnerInd, NEW c \in Clients, NEW r \in Runners, NEW id \in Ids, CallBegins(c, r, id)
  PROVE  RunnerInd' /\ Settled
<1>1. TypeOK /\ LifeInv /\ RecordInv /\ CallInv /\ PastInv
  BY DEF RunnerInd
<1>2. Quiet /\ Looks /\ ctx' = ctx /\ UNCHANGED ghost /\ call' \in [Clients -> Call]
  BY <1>1, BeginFacts
<1>3. TypeOK'
  BY <1>1, <1>2 DEF TypeOK, Quiet, Looks, ghost
<1>4. Settled /\ LifeInv'
  BY <1>1, <1>2, LooksSettle DEF LifeInv, Quiet, Ready
<1>5. RecordInv' /\ CallInv'
  BY <1>1, <1>2, LooksRecord, BeginKnows DEF RecordInv
<1>6. PastInv'
  BY <1>1, <1>2, <1>4, PastKept DEF PastInv, ghost
<1>7. QED
  BY <1>3, <1>4, <1>5, <1>6 DEF RunnerInd

LEMMA CallKeepsRunners ==
  ASSUME RunnerInd, NEW c \in Clients, CallStep(c)
  PROVE  RunnerInd' /\ Settled
<1>1. TypeOK /\ LifeInv /\ RecordInv /\ CallInv /\ PastInv
  BY DEF RunnerInd
<1>2. /\ Quiet /\ Looks /\ ctx' \in [Ids -> {"live", "cancelled", "expired"}]
      /\ call' \in [Clients -> Call] /\ call[c].at # "idle" /\ CallTells(c)
  BY <1>1, CallFacts
<1>3. final' \subseteq Runners \X Ids /\ cutShort' \subseteq Runners \X Ids
  BY <1>1, <1>2, CallOf DEF CallTells, TypeOK, ghost
<1>4. TypeOK'
  BY <1>1, <1>2, <1>3 DEF TypeOK, Quiet, Looks
<1>5. Settled /\ LifeInv'
  BY <1>1, <1>2, LooksSettle DEF LifeInv, Quiet, Ready
<1>6. RecordInv' /\ CallInv' /\ PastInv'
  BY <1>1, <1>2, LooksRecord, StepKnows, TellsPast DEF RecordInv
<1>7. QED
  BY <1>4, <1>5, <1>6 DEF RunnerInd

\* The invariant is inductive, and what is settled stays.
LEMMA RunnerIndStep == RunnerInd /\ [RunnerNext]_runnerVars => RunnerInd' /\ Settled
<1> SUFFICES ASSUME RunnerInd, [RunnerNext]_runnerVars PROVE RunnerInd' /\ Settled
  OBVIOUS
<1>1. CASE RunnerNext
  BY <1>1, HistoryKeeps, CommandKeeps, StartKeeps, CallKeepsRunners, BeginKeepsRunners
     DEF RunnerNext
<1>2. CASE UNCHANGED runnerVars
  <2>1. Quiet /\ cache' = cache /\ UNCHANGED <<ctx, call, ghost>>
    BY <1>2 DEF runnerVars, log, command, Quiet
  <2>2. Looks
    BY <2>1, RememberLooks DEF RunnerInd
  <2>3. QED
    BY <2>1, <2>2, LooksKeep
<1>3. QED
  BY <1>1, <1>2

\* It holds before anything has started.
LEMMA RunnerIndInit == RunnerInit => RunnerInd
<1> SUFFICES ASSUME RunnerInit PROVE RunnerInd
  OBVIOUS
<1>1. Idle \in Call
  BY DEF Idle, Call, CallSteps
<1>2. cache \in [Runners -> [Ids -> Status \cup {"none"}]]
  BY DEF RunnerInit
<1>3. TypeOK
  BY <1>1, <1>2 DEF RunnerInit, TypeOK, WorkSteps
<1>4. LifeInv
  BY DEF RunnerInit, LifeInv
<1>5. ASSUME NEW id \in Ids PROVE RecordOK(id)
  BY DEF RunnerInit, RecordOK, CommandOK, DiskOK, KeptOK, CacheOK, Final, Over
<1>6. \A c \in Clients : CallKnows(c)
  BY DEF RunnerInit, CallKnows, Idle
<1>7. PastInv
  BY DEF RunnerInit, PastInv
<1>8. QED
  BY <1>3, <1>4, <1>5, <1>6, <1>7 DEF RunnerInd, RecordInv, CallInv

\* What is left of the record of an ended command is its end, on every runner that
\* shares its owner's log.
LEMMA EndIsKnown ==
  ASSUME TypeOK, NEW r \in Runners, NEW id \in Ids, RecordOK(id), SharesLog(r, owner[id]),
         owner[id] \in Runners, returned[id] \in Final
  PROVE  \/ Known(r, id) = returned[id]
         \/ id \in swept /\ Known(r, id) \notin Final
<1>1. CommandOK(id) /\ KeptOK(id) /\ DiskOK(id) /\ CacheOK(r, id) /\ CacheOK(owner[id], id)
  BY DEF RecordOK
<1>2. outcome[id] = returned[id]
  BY <1>1 DEF CommandOK
<1>3. Known(r, id) \in Final => Known(r, id) = returned[id]
  BY <1>2, KnownFinal
<1>4. ASSUME id \notin swept PROVE Known(r, id) \in Final
  <2>1. CASE r = owner[id]
    BY <1>1, <1>4, <2>1 DEF KeptOK, Known
  <2>2. CASE r # owner[id]
    <3>1. root[r] = root[owner[id]] /\ Persistent(id) /\ owner[id] # NoOne
      BY <2>2 DEF SharesLog, Persistent
    <3>2. id \in row /\ file[id] # "absent"
      BY <1>1, <1>4, <3>1 DEF KeptOK
    <3>3. file[id] = outcome[id]
      BY <1>1, <3>2 DEF DiskOK
    <3>4. OnDisk(r, id) \in Final
      BY <1>2, <3>1, <3>2, <3>3 DEF OnDisk, Stored, Status
    <3>5. QED
      BY <3>4 DEF Known
  <2>3. QED
    BY <2>1, <2>2
<1>5. QED
  BY <1>3, <1>4

\* What an ok Abort rests on holds on every runner that shares the log, until the
\* record is retired.
LEMMA FinalIsKnown ==
  ASSUME TypeOK, NEW r \in Runners, NEW id \in Ids, RecordOK(id), FinalOK(r, id),
         NEW s \in Runners, SharesLog(r, s), s = r \/ id \notin swept
  PROVE  Known(s, id) # "running"
<1>1. CASE s = r
  BY <1>1, KnownCases DEF FinalOK
<1>2. CASE s # r
  <2>1. /\ root[s] = root[r] /\ Persistent(id) /\ owner[id] = r /\ id \notin swept /\ waited[id]
        /\ cache[r][id] # "running"
    BY <1>2 DEF SharesLog, Persistent, FinalOK
  <2>2. KeptOK(id) /\ CacheOK(r, id) /\ CommandOK(id)
    BY DEF RecordOK
  <2>3. id \in row /\ file[id] # "absent" /\ cache[r][id] # "none"
    BY <2>1, <2>2 DEF KeptOK
  <2>4. cache[r][id] \in Final
    BY <2>1, <2>3 DEF TypeOK, Status
  <2>5. file[id] \in Final /\ owner[id] # NoOne
    BY <2>2, <2>3, <2>4 DEF CacheOK
  <2>6. OnDisk(s, id) \in Final
    BY <2>1, <2>3, <2>5 DEF OnDisk, Stored, Status
  <2>7. Known(s, id) \in Final
    BY <2>6 DEF Known
  <2>8. QED
    BY <2>7 DEF Final
<1>3. QED
  BY <1>1, <1>2

\* The invariant implies what Abort, the starter's answer and WaitForHistory promise.
LEMMA RunnerIndImplies ==
  ASSUME RunnerInd
  PROVE  AbortOkIsFinal /\ AnswerIsDurable /\ WaitNotCutShort
<1>1. TypeOK /\ LifeInv /\ PastInv /\ \A id \in Ids : RecordOK(id) /\ CommandOK(id)
  BY DEF RunnerInd, RecordInv, RecordOK
<1>2. AbortOkIsFinal
  BY <1>1, FinalIsKnown DEF PastInv, AbortOkIsFinal
<1>3. ASSUME NEW id \in Ids, answer[id] \in Final, NEW r \in Runners, SharesLog(r, owner[id])
      PROVE  \/ Known(r, id) = answer[id]
             \/ id \in swept /\ Known(r, id) \notin Final
  <2>1. returned[id] = answer[id] /\ owner[id] \in Runners
    BY <1>1, <1>3 DEF CommandOK, Over, TypeOK
  <2>2. QED
    BY <1>1, <1>3, <2>1, EndIsKnown
<1>4. WaitNotCutShort
  BY <1>1 DEF PastInv, CutShortOK, WaitNotCutShort
<1>5. QED
  BY <1>2, <1>3, <1>4 DEF AnswerIsDurable

\* The invariant holds in every state the runners reach, whatever Puts fail and
\* whatever Cleanups retire.
THEOREM RunnerInductive == RunnerSpec => []RunnerInd
<1>1. RunnerInd /\ [RunnerNext]_runnerVars => RunnerInd'
  BY RunnerIndStep
<1>2. QED
  BY RunnerIndInit, <1>1, PTL DEF RunnerSpec

\* Every variable of the runners stays in its type.
THEOREM RunnerTypeCorrect == RunnerSpec => []TypeOK
<1>1. RunnerInd => TypeOK
  BY DEF RunnerInd
<1>2. QED
  BY <1>1, RunnerInductive, PTL

\* An Abort that answers ok is final: no later get on its runner reports the command
\* as running, and none on another runner over its root until a Cleanup retires it.
THEOREM AbortedIsFinal == RunnerSpec => []AbortOkIsFinal
BY RunnerIndImplies, RunnerInductive, PTL

\* The status the starter of a command was given is what every runner over the root
\* reports from then on, until a Cleanup retires the record; then it is the status or
\* no end at all.
THEOREM AnswersAreDurable == RunnerSpec => []AnswerIsDurable
BY RunnerIndImplies, RunnerInductive, PTL

\* WaitForHistory gives up before its time on a record nobody has retired only if the
\* terminal record never appears or, on another runner than the command's, once the
\* record's rewriting has begun.
THEOREM WaitsAreNotCutShort == RunnerSpec => []WaitNotCutShort
BY RunnerIndImplies, RunnerInductive, PTL
=============================================================================
