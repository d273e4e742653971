--------------------------- MODULE FileEditsProofs ---------------------------
(***************************************************************************)
(* FileEdits for any number of callers, Services and spans: every state is *)
(* well typed, mutexes do not leak, a call that succeeds leaves no         *)
(* temporary file, and what a guarded call replaces is what it compared.   *)
(***************************************************************************)
EXTENDS FileEdits, SequenceTheorems, TLAPS

\* Replacing an occurrence in a text (strings.Replace) makes a text of the same pieces.
LEMMA ReplaceFirstText ==
  ASSUME NEW E, NEW T \in Seq(E), NEW old \in Seq(E), NEW new \in Seq(E), Once(T, old)
  PROVE  ReplaceFirst(T, old, new) \in Seq(E)
<1> DEFINE k == CHOOSE i \in Found(T, old) : \A j \in Found(T, old) : i <= j
<1>1. \E i \in Found(T, old) : \A j \in Found(T, old) : i <= j
  BY DEF Once
<1>2. k \in Found(T, old)
  BY <1>1
<1>3. k \in 1..(Len(T) + 1 - Len(old))
  BY <1>2 DEF Found
<1>4. Len(T) \in Nat /\ Len(old) \in Nat
  OBVIOUS
<1>5. k \in Nat /\ k >= 1 /\ k + Len(old) <= Len(T) + 1
  BY <1>3, <1>4
<1> HIDE DEF k
<1>6. SubSeq(T, 1, k - 1) \in Seq(E)
  BY <1>4, <1>5, SubSeqProperties
<1>7. SubSeq(T, k + Len(old), Len(T)) \in Seq(E)
  BY <1>4, <1>5, SubSeqProperties
<1>8. SubSeq(T, 1, k - 1) \o new \o SubSeq(T, k + Len(old), Len(T)) \in Seq(E)
  BY <1>6, <1>7, ConcatProperties
<1> QED
  BY <1>8 DEF ReplaceFirst, k

\* The edits of a Service and of fileops make a text of the same pieces, or refuse.
LEMMA EditsMakeText ==
  ASSUME NEW E, NEW T \in Seq(E), NEW L \in Seq(E), NEW s \in E, NEW n \in E
  PROVE  /\ ApplyUniqueReplacement(T, <<s>>, <<n>>) \in Seq(E) \cup {Refused}
         /\ ApplyUniqueReplacement(T, <<s>>, <<>>) \in Seq(E) \cup {Refused}
         /\ AppendUniqueEdit(T, L, s) \in Seq(E) \cup {Refused}
         /\ ReplaceUniqueSpan(T, <<s>>, <<n>>) \in Seq(E) \cup {Refused}
         /\ DeleteExactBlock(T, <<s>>) \in Seq(E) \cup {Refused}
         /\ AppendUnique(T, s) \in Seq(E)
<1>1. <<s>> \in Seq(E) /\ <<n>> \in Seq(E) /\ <<>> \in Seq(E)
  OBVIOUS
<1>2. Append(L, s) \in Seq(E) /\ Append(T, s) \in Seq(E)
  BY AppendProperties
<1>3. ASSUME NEW old \in Seq(E), NEW new \in Seq(E)
      PROVE  ApplyUniqueReplacement(T, old, new) \in Seq(E) \cup {Refused}
  <2>1. CASE old = <<>>
    BY <2>1, <1>3 DEF ApplyUniqueReplacement
  <2>2. CASE old # <<>> /\ Once(T, old)
    BY <2>2, <1>3, ReplaceFirstText DEF ApplyUniqueReplacement
  <2>3. CASE old # <<>> /\ ~Once(T, old) /\ Found(T, old) = {} /\ Found(T, new) # {}
    BY <2>3 DEF ApplyUniqueReplacement
  <2>4. CASE old # <<>> /\ ~Once(T, old) /\ ~(Found(T, old) = {} /\ Found(T, new) # {})
    BY <2>4 DEF ApplyUniqueReplacement
  <2> QED
    BY <2>1, <2>2, <2>3, <2>4
<1>4. AppendUniqueEdit(T, L, s) \in Seq(E) \cup {Refused}
  BY <1>1, <1>2, <1>3 DEF AppendUniqueEdit
<1>5. ReplaceUniqueSpan(T, <<s>>, <<n>>) \in Seq(E) \cup {Refused}
  BY <1>1, ReplaceFirstText DEF ReplaceUniqueSpan
<1>6. DeleteExactBlock(T, <<s>>) \in Seq(E) \cup {Refused}
  <2>1. CASE Found(T, <<s>>) = {}
    BY <2>1 DEF DeleteExactBlock, Once
  <2>2. CASE Found(T, <<s>>) # {} /\ Once(T, <<s>>)
    BY <2>2, <1>1, ReplaceFirstText DEF DeleteExactBlock
  <2>3. CASE Found(T, <<s>>) # {} /\ ~Once(T, <<s>>)
    BY <2>3 DEF DeleteExactBlock
  <2> QED
    BY <2>1, <2>2, <2>3
<1>7. AppendUnique(T, s) \in Seq(E)
  BY <1>2 DEF AppendUnique
<1> QED
  BY <1>1, <1>3, <1>4, <1>5, <1>6, <1>7

\* What a call goes on to install, once its guards have passed, is a text of the
\* pieces of what it has read and of its request.
LEMMA InstallsText ==
  ASSUME NEW E, Spans \subseteq E, NEW c \in Callers, req[c] \in Request, Changes(c),
         target \in Seq(E) \cup {Absent}, job[c].looked \in Seq(E)
  PROVE  Desired(c) \in Seq(E)
<1> DEFINE r == req[c]
<1>1. r.kind \in Kinds /\ r.span \in E /\ r.new \in E
  BY DEF Request
<1>2. <<r.span>> \in Seq(E)
  BY <1>1
<1>3. Desired(c) # Refused /\ Admits(c)
  BY DEF Changes
<1>4. CASE r.kind \in {"write", "create"}
  BY <1>2, <1>4 DEF Desired, ServiceDesired, FileopsDesired
<1>5. CASE r.kind \in {"edit", "append", "delete"}
  <2>1. target \in Seq(E)
    BY <1>3, <1>5 DEF Admits, ServiceAdmits, FileopsAdmits
  <2>2. CASE r.kind = "edit"
    BY <1>1, <1>3, <2>1, <2>2, EditsMakeText DEF Desired, ServiceDesired, FileopsDesired
  <2>3. CASE r.kind = "append"
    BY <1>1, <1>3, <2>1, <2>3, EditsMakeText DEF Desired, ServiceDesired, FileopsDesired
  <2>4. CASE r.kind = "delete"
    BY <1>1, <1>3, <2>1, <2>4, EditsMakeText DEF Desired, ServiceDesired, FileopsDesired
  <2> QED
    BY <1>5, <2>2, <2>3, <2>4
<1> QED
  BY <1>1, <1>4, <1>5 DEF Kinds

-----------------------------------------------------------------------------
\* Ending calls, by a return, a crash or a power loss (Forget), keeps the types.
LEMMA ForgetTypes ==
  ASSUME TypeOK, NEW C \in SUBSET Callers, Forget(C)
  PROVE  /\ pc' \in [Callers -> Steps]
         /\ req' \in [Callers -> Request \cup {NoRequest}]
         /\ job' \in [Callers -> Job]
         /\ base' \in [Callers -> Nat]
         /\ writeMu' \in [Services -> Callers \cup {NoService}]
<1>1. NoJob \in Job
  BY DEF NoJob, Job, Text
<1>2. "idle" \in Steps
  BY DEF Steps
<1> QED
  BY <1>1, <1>2 DEF TypeOK, Forget

\* Installing a text (Put: rename or link) keeps the types.
LEMMA PutTypes ==
  ASSUME TypeOK, NEW c \in Callers, NEW T \in Text, NEW b \in BOOLEAN, Put(c, T, b)
  PROVE  /\ target' \in Text /\ durable' \in Text \cup {Absent} /\ sound' \in BOOLEAN
         /\ made' \in Nat /\ shown' \in Nat /\ kept' \in Nat
         /\ raced' \subseteq Callers
BY DEF TypeOK, Put

\* Every step of a call, of the kernel or of an outsider keeps the types.
LEMMA TypeStep == TypeOK /\ IndInv /\ [Next]_vars => TypeOK'
<1> SUFFICES ASSUME TypeOK, \A c \in Callers : UpToDate(c), [Next]_vars PROVE TypeOK'
  BY DEF IndInv
<1> USE DEF TypeOK
<1>0. Torn \in Text
  BY DEF Torn, Text
<1>1. CASE UNCHANGED vars
  BY <1>1 DEF vars, disk, counters, ghost
<1>2. ASSUME NEW c \in Callers, NEW kind \in Kinds, NEW s \in Spans, NEW n \in Spans,
             Begin(c, kind, s, n)
      PROVE  TypeOK'
  <2>1. req' \in [Callers -> Request \cup {NoRequest}]
    BY <1>2 DEF Begin, Request
  <2>2. pc' \in [Callers -> Steps]
    BY <1>2 DEF Begin, Goto, Steps
  <2> QED
    BY <1>2, <2>1, <2>2 DEF Begin, disk, ghost
<1>3. ASSUME NEW c \in Callers, CallStep(c) PROVE TypeOK'
  <2>1. CASE Look(c)
    BY <2>1 DEF Look, Goto, Steps, Job, disk, counters, ghost
  <2>2. CASE Lock(c)
    <3>1. service[c] \in Services
      BY <2>2 DEF Lock, UpToDate, InService
    <3> QED
      BY <2>2, <3>1 DEF Lock, Goto, Steps, Holding, Writing, disk, counters, ghost
  <2>3. CASE Read(c)
    <3>1. req[c] \in Request
      BY <2>3 DEF Read, UpToDate
    <3>2. Desired(c) \in Text
      BY <2>3, <3>1, InstallsText DEF Read, Text, Job
    <3>3. job' \in [Callers -> Job]
      BY <2>3, <3>2 DEF Read, Job
    <3> QED
      BY <2>3, <3>3 DEF Read, Goto, Steps, Writing, disk, counters
  <2>4. CASE ReadReturns(c) \/ Fails(c) \/ FailsLate(c)
    BY <2>4, ForgetTypes DEF ReadReturns, Fails, FailsLate, Return, ReturnError, disk, counters
  <2>5. CASE MakeTemp(c) \/ FillTemp(c) \/ Unlink(c)
    <3>1. PICK t \in {"none", "partial", "synced"} : job' = [job EXCEPT ![c].temp = t]
      BY <2>5 DEF MakeTemp, FillTemp, Unlink
    <3>2. job' \in [Callers -> Job]
      BY <3>1 DEF Job
    <3>3. pc' \in [Callers -> Steps]
      BY <2>5 DEF MakeTemp, FillTemp, Unlink, Goto, Steps, Writing
    <3>4. UNCHANGED <<service, disk, litter, writeMu, req, counters, ghost>>
      BY <2>5 DEF MakeTemp, FillTemp, Unlink
    <3> QED
      BY <3>2, <3>3, <3>4 DEF disk, counters, ghost
  <2>6. CASE Rename(c)
    <3>1. job[c].text \in Text
      BY DEF Job
    <3> QED
      BY <2>6, <3>1, ForgetTypes, PutTypes DEF Rename, Return, counters
  <2>7. CASE RenameOpts(c) \/ Link(c)
    <3>1. job[c].text \in Text
      BY DEF Job
    <3>2. PICK b \in BOOLEAN : Put(c, job[c].text, b)
      BY <2>7 DEF RenameOpts, Link
    <3>3. job' \in [Callers -> Job]
      <4>1. made + 1 \in Nat
        OBVIOUS
      <4>2. CASE RenameOpts(c)
        BY <4>1, <4>2 DEF RenameOpts, Job
      <4>3. CASE Link(c)
        BY <4>1, <4>3 DEF Link, Job
      <4> QED
        BY <2>7, <4>2, <4>3
    <3> QED
      BY <2>7, <3>1, <3>2, <3>3, PutTypes DEF RenameOpts, Link, Goto, Steps, Writing, counters
  <2>8. CASE SyncDir(c)
    <3>1. acked' \in Nat
      BY <2>8 DEF SyncDir, Acknowledge, Job
    <3> QED
      BY <2>8, <3>1, <1>0, ForgetTypes DEF SyncDir, Return, counters
  <2>9. CASE OpenExclusive(c)
    <3>1. job' \in [Callers -> Job]
      BY <2>9 DEF OpenExclusive, Job
    <3> QED
      BY <2>9, <3>1, <1>0, PutTypes DEF OpenExclusive, Goto, Steps, counters
  <2>10. CASE Pour(c)
    <3>1. job[c].text \in Text
      BY DEF Job
    <3>2. CASE shown = job[c].mine
      BY <2>10, <3>1, <3>2, ForgetTypes, PutTypes DEF Pour, Return, counters
    <3>3. CASE shown # job[c].mine
      BY <2>10, <3>3, ForgetTypes DEF Pour, Return, counters, disk
    <3> QED
      BY <3>2, <3>3
  <2> QED
    BY <1>3, <2>1, <2>2, <2>3, <2>4, <2>5, <2>6, <2>7, <2>8, <2>9, <2>10 DEF CallStep
<1>4. CASE Remove
  BY <1>4 DEF Remove
<1>5. ASSUME NEW C \in Processes, Crash(C) PROVE TypeOK'
  <2>1. C \in SUBSET Callers
    BY DEF Processes
  <2> QED
    BY <1>5, <2>1, ForgetTypes DEF Crash, disk
<1>6. CASE Writeback
  BY <1>6, <1>0 DEF Writeback, counters, ghost
<1>7. CASE PowerLoss
  BY <1>7, ForgetTypes DEF PowerLoss
<1> QED
  BY <1>1, <1>2, <1>3, <1>4, <1>5, <1>6, <1>7 DEF Next

-----------------------------------------------------------------------------
\* Calls that end (Forget) work with no temporary file any more and free just their
\* own mutexes.
LEMMA ForgetLeaksNothing ==
  ASSUME TypeOK, OwnsItsParts, NEW C \in SUBSET Callers, Forget(C), UNCHANGED service
  PROVE  OwnsItsParts'
<1> SUFFICES ASSUME NEW c \in Callers
             PROVE  /\ job'[c].temp # "none" => pc'[c] \in {"fill", "install", "unlink"}
                    /\ InService(c)' => (writeMu'[service'[c]] = c <=> pc'[c] \in Holding)
  BY DEF OwnsItsParts, HasTemp
<1>1. job'[c].temp # "none" => pc'[c] \in {"fill", "install", "unlink"}
  BY DEF Forget, OwnsItsParts, HasTemp, NoJob
<1>2. ASSUME InService(c)' PROVE writeMu'[service'[c]] = c <=> pc'[c] \in Holding
  <2>1. service[c] \in Services /\ InService(c) /\ service'[c] = service[c]
    BY <1>2 DEF InService, TypeOK
  <2>2. writeMu'[service[c]] = IF writeMu[service[c]] \in C THEN NoService ELSE writeMu[service[c]]
    BY <2>1 DEF Forget
  <2>3. pc'[c] = IF c \in C THEN "idle" ELSE pc[c]
    BY DEF Forget
  <2>4. writeMu[service[c]] = c <=> pc[c] \in Holding
    BY <2>1 DEF OwnsItsParts, HasTemp
  <2>5. NoService # c /\ "idle" \notin Holding
    BY EditAssumption DEF Holding, Writing
  <2> QED
    BY <2>1, <2>2, <2>3, <2>4, <2>5
<1> QED
  BY <1>1, <1>2

\* A step of d with the mutexes as they were leaks nothing if it stays inside, or
\* outside, what the mutex protects.
LEMMA OwnStepLeaksNothing ==
  ASSUME TypeOK, OwnsItsParts, NEW d \in Callers, UNCHANGED <<service, writeMu>>,
         \A c \in Callers \ {d} : pc'[c] = pc[c] /\ job'[c] = job[c],
         InService(d) => (pc'[d] \in Holding <=> pc[d] \in Holding),
         job'[d].temp # "none" => pc'[d] \in {"fill", "install", "unlink"}
  PROVE  OwnsItsParts'
<1> SUFFICES ASSUME NEW c \in Callers
             PROVE  /\ job'[c].temp # "none" => pc'[c] \in {"fill", "install", "unlink"}
                    /\ InService(c)' => (writeMu'[service'[c]] = c <=> pc'[c] \in Holding)
  BY DEF OwnsItsParts, HasTemp
<1>1. CASE c = d
  BY <1>1 DEF OwnsItsParts, HasTemp, InService
<1>2. CASE c # d
  BY <1>2 DEF OwnsItsParts, HasTemp, InService
<1> QED
  BY <1>1, <1>2

\* No step leaves a call with a mutex or a temporary file that it does not work with.
LEMMA LeakStep == TypeOK /\ IndInv /\ [Next]_vars => OwnsItsParts'
<1> SUFFICES ASSUME TypeOK, OwnsItsParts, \A c \in Callers : UpToDate(c), [Next]_vars PROVE OwnsItsParts'
  BY DEF IndInv
<1>1. CASE UNCHANGED vars
  BY <1>1 DEF vars, OwnsItsParts, HasTemp, InService
<1>2. ASSUME NEW d \in Callers, NEW kind \in Kinds, NEW s \in Spans, NEW n \in Spans,
             Begin(d, kind, s, n)
      PROVE  OwnsItsParts'
  <2>1. pc[d] = "idle" /\ job[d].temp = "none"
    BY <1>2 DEF Begin, OwnsItsParts, HasTemp
  <2>2. InService(d) => pc'[d] \in {"look", "lock"}
    BY <1>2 DEF Begin, Goto, TypeOK
  <2> QED
    BY <1>2, <2>1, <2>2, OwnStepLeaksNothing DEF Begin, Goto, TypeOK, Holding, Writing
<1>3. ASSUME NEW d \in Callers, CallStep(d) PROVE OwnsItsParts'
  <2>0. /\ pc \in [Callers -> Steps] /\ job \in [Callers -> Job]
        /\ job[d].temp # "none" => pc[d] \in {"fill", "install", "unlink"}
    BY DEF TypeOK, OwnsItsParts, HasTemp
  <2>1. CASE Look(d)
    <3>1. job'[d].temp = "none"
      BY <2>0, <2>1 DEF Look, Job
    <3> QED
      BY <2>0, <2>1, <3>1, OwnStepLeaksNothing DEF Look, Goto, Holding, Writing
  <2>2. CASE Lock(d)
    <3>1. service[d] \in Services /\ InService(d)
      BY <2>2 DEF Lock, UpToDate, InService, TypeOK
    <3>2. ASSUME NEW c \in Callers
          PROVE  /\ job'[c].temp # "none" => pc'[c] \in {"fill", "install", "unlink"}
                 /\ InService(c)' => (writeMu'[service'[c]] = c <=> pc'[c] \in Holding)
      <4>1. CASE c = d
        BY <2>0, <2>2, <3>1, <4>1 DEF Lock, Goto, Holding, TypeOK
      <4>2. CASE c # d
        BY <2>2, <3>1, <4>2, EditAssumption DEF Lock, Goto, OwnsItsParts, HasTemp, InService, TypeOK
      <4> QED
        BY <4>1, <4>2
    <3> QED
      BY <3>2 DEF OwnsItsParts, HasTemp
  <2>3. CASE Read(d)
    <3>1. job'[d].temp = "none"
      BY <2>0, <2>3 DEF Read, Job
    <3>2. InService(d) => pc'[d] = "temp"
      BY <2>0, <2>3 DEF Read, Goto
    <3> QED
      BY <2>0, <2>3, <3>1, <3>2, OwnStepLeaksNothing DEF Read, Goto, Holding, Writing
  <2>4. CASE ReadReturns(d) \/ Fails(d) \/ FailsLate(d) \/ Rename(d) \/ SyncDir(d) \/ Pour(d)
    <3>1. Forget({d}) /\ UNCHANGED service
      BY <2>4 DEF ReadReturns, Fails, FailsLate, Rename, SyncDir, Pour, Return, ReturnError
    <3> QED
      BY <3>1, ForgetLeaksNothing
  <2>5. CASE MakeTemp(d) \/ FillTemp(d)
    BY <2>0, <2>5, OwnStepLeaksNothing DEF MakeTemp, FillTemp, Goto, Holding, Writing
  <2>6. CASE Unlink(d) \/ RenameOpts(d)
    <3>1. job'[d].temp = "none"
      BY <2>0, <2>6 DEF Unlink, RenameOpts, Job
    <3> QED
      BY <2>0, <2>6, <3>1, OwnStepLeaksNothing DEF Unlink, RenameOpts, Goto, Holding, Writing
  <2>7. CASE Link(d)
    BY <2>0, <2>7, OwnStepLeaksNothing DEF Link, Goto, Holding, Writing
  <2>8. CASE OpenExclusive(d)
    <3>1. job'[d].temp = "none" /\ ~InService(d)
      BY <2>0, <2>8 DEF OpenExclusive, Job, UpToDate
    <3> QED
      BY <2>0, <2>8, <3>1, OwnStepLeaksNothing DEF OpenExclusive, Goto
  <2> QED
    BY <1>3, <2>1, <2>2, <2>3, <2>4, <2>5, <2>6, <2>7, <2>8 DEF CallStep
<1>4. CASE Remove \/ Writeback
  BY <1>4 DEF Remove, Writeback, OwnsItsParts, HasTemp, InService
<1>5. ASSUME NEW C \in Processes, Crash(C) PROVE OwnsItsParts'
  <2>1. C \in SUBSET Callers
    BY DEF Processes
  <2> QED
    BY <1>5, <2>1, ForgetLeaksNothing DEF Crash
<1>6. CASE PowerLoss
  BY <1>6, ForgetLeaksNothing DEF PowerLoss
<1> QED
  BY <1>1, <1>2, <1>3, <1>4, <1>5, <1>6 DEF Next

-----------------------------------------------------------------------------
\* What d installs (Put) leaves no other caller with a comparison it takes for good:
\* the mutex keeps those of its Service out, the others count as overtaken.
LEMMA PutOvertakes ==
  ASSUME TypeOK, IndInv, NEW d \in Callers, NEW T, NEW b, Put(d, T, b),
         pc[d] \in {"install", "open", "pour"},
         NEW c \in Callers \ {d}, pc[c] \in Compared
  PROVE  c \in raced'
<1>1. pc[c] \in Writing \cup {"open"}
  BY DEF Compared, Writing
<1>2. ASSUME Mates(d, c) PROVE FALSE
  <2>1. InService(d) /\ InService(c) /\ service[c] = service[d]
    BY <1>2 DEF Mates, InService
  <2>2. pc[d] \in Holding /\ pc[c] \in Holding
    BY <2>1 DEF IndInv, UpToDate, Holding, Writing, Compared
  <2> QED
    BY <2>1, <2>2 DEF IndInv, OwnsItsParts, HasTemp
<1> QED
  BY <1>1, <1>2 DEF Put

\* A step that leaves c alone leaves it up to date, when the file shows the same
\* version or c counts as overtaken.
LEMMA OthersStayUpToDate ==
  ASSUME TypeOK, IndInv, NEW c \in Callers, UNCHANGED service,
         pc'[c] = pc[c], req'[c] = req[c], base'[c] = base[c],
         c \in raced => c \in raced',
         pc[c] \in Compared => shown' = shown \/ c \in raced'
  PROVE  UpToDate(c)'
BY DEF IndInv, UpToDate, InService

\* Calls that end hold no comparison, and the others keep theirs.
LEMMA ForgetStaysUpToDate ==
  ASSUME TypeOK, IndInv, NEW C \in SUBSET Callers, Forget(C), UNCHANGED service,
         raced \subseteq raced',
         \A c \in Callers \ C : pc[c] \in Compared => shown' = shown \/ c \in raced'
  PROVE  \A c \in Callers : UpToDate(c)'
<1> SUFFICES ASSUME NEW c \in Callers PROVE UpToDate(c)'
  OBVIOUS
<1>1. CASE c \in C
  BY <1>1 DEF Forget, UpToDate, Compared
<1>2. CASE c \notin C
  BY <1>2, OthersStayUpToDate DEF Forget
<1> QED
  BY <1>1, <1>2

\* No step leaves a caller with a comparison that is out of date unnoticed.
LEMMA UpToDateStep == TypeOK /\ IndInv /\ [Next]_vars => (\A c \in Callers : UpToDate(c))'
<1> SUFFICES ASSUME TypeOK, IndInv, [Next]_vars PROVE \A c \in Callers : UpToDate(c)'
  OBVIOUS
<1>0. /\ pc \in [Callers -> Steps] /\ base \in [Callers -> Nat]
      /\ req \in [Callers -> Request \cup {NoRequest}]
  BY DEF TypeOK
<1>1. CASE UNCHANGED vars
  BY <1>1 DEF vars, disk, ghost, IndInv, UpToDate, InService
<1>2. ASSUME NEW d \in Callers, NEW kind \in Kinds, NEW s \in Spans, NEW n \in Spans,
             Begin(d, kind, s, n)
      PROVE  \A c \in Callers : UpToDate(c)'
  <2>1. ASSUME NEW c \in Callers \ {d} PROVE UpToDate(c)'
    BY <1>2, <1>0, <2>1, OthersStayUpToDate DEF Begin, Goto, disk, ghost
  <2>2. UpToDate(d)'
    <3>1. req'[d] \in Request
      BY <1>2, <1>0 DEF Begin, Request, TypeOK
    <3>2. pc'[d] \in {"read", "look", "lock"} /\ (~InService(d) => pc'[d] = "read")
      BY <1>2, <1>0 DEF Begin, Goto
    <3> QED
      BY <1>2, <3>1, <3>2 DEF Begin, UpToDate, Compared, InService
  <2> QED
    BY <2>1, <2>2
<1>3. ASSUME NEW d \in Callers, CallStep(d) PROVE \A c \in Callers : UpToDate(c)'
  <2>0. UpToDate(d)
    BY DEF IndInv
  <2>1. CASE Look(d) \/ Lock(d) \/ MakeTemp(d) \/ FillTemp(d) \/ Unlink(d)
    <3>1. ASSUME NEW c \in Callers \ {d} PROVE UpToDate(c)'
      BY <1>0, <2>1, OthersStayUpToDate
      DEF Look, Lock, MakeTemp, FillTemp, Unlink, Goto, disk, ghost
    <3>2. UpToDate(d)'
      BY <1>0, <2>0, <2>1
      DEF Look, Lock, MakeTemp, FillTemp, Unlink, Goto, disk, ghost, UpToDate, Compared, InService
    <3> QED
      BY <3>1, <3>2
  <2>2. CASE Read(d)
    <3>1. ASSUME NEW c \in Callers \ {d} PROVE UpToDate(c)'
      BY <1>0, <2>2, OthersStayUpToDate DEF Read, Goto, disk
    <3>2. UpToDate(d)'
      <4>1. base'[d] = shown' /\ req'[d] = req[d] /\ InService(d)' = InService(d)
        BY <1>0, <2>2 DEF Read, disk, InService
      <4>2. pc'[d] = IF req[d].kind = "create" /\ ~InService(d) THEN "open" ELSE "temp"
        BY <1>0, <2>2 DEF Read, Goto
      <4>3. req[d] \in Request
        BY <2>0, <2>2 DEF Read, UpToDate
      <4> QED
        BY <4>1, <4>2, <4>3 DEF UpToDate
    <3> QED
      BY <3>1, <3>2
  <2>3. CASE ReadReturns(d) \/ Fails(d) \/ FailsLate(d) \/ SyncDir(d)
    <3>1. Forget({d}) /\ UNCHANGED <<service, shown, raced>>
      BY <2>3 DEF ReadReturns, Fails, FailsLate, SyncDir, Return, ReturnError, disk
    <3> QED
      BY <3>1, ForgetStaysUpToDate
  <2>4. CASE Rename(d)
    <3>1. \A c \in Callers \ {d} : pc[c] \in Compared => c \in raced'
      BY <2>4, PutOvertakes DEF Rename
    <3>2. Forget({d}) /\ UNCHANGED service /\ raced \subseteq raced'
      BY <2>4 DEF Rename, Return, Put
    <3> QED
      BY <3>1, <3>2, ForgetStaysUpToDate
  <2>5. CASE RenameOpts(d) \/ Link(d) \/ OpenExclusive(d)
    <3>1. \A c \in Callers \ {d} : pc[c] \in Compared => c \in raced'
      BY <2>5, PutOvertakes DEF RenameOpts, Link, OpenExclusive
    <3>2. UNCHANGED <<service, req, base>> /\ raced \subseteq raced'
      BY <2>5 DEF RenameOpts, Link, OpenExclusive, Put
    <3>3. ASSUME NEW c \in Callers \ {d} PROVE UpToDate(c)'
      <4>1. pc'[c] = pc[c]
        BY <1>0, <2>5 DEF RenameOpts, Link, OpenExclusive, Goto
      <4> QED
        BY <3>1, <3>2, <4>1, OthersStayUpToDate
    <3>4. UpToDate(d)'
      <4>1. \/ pc'[d] \in {"sync", "unlink"} /\ InService(d)
            \/ pc'[d] = "pour" /\ ~InService(d)
        BY <1>0, <2>0, <2>5 DEF RenameOpts, Link, OpenExclusive, Goto, UpToDate
      <4>2. pc[d] # "idle"
        BY <2>5 DEF RenameOpts, Link, OpenExclusive
      <4> QED
        BY <2>0, <3>2, <4>1, <4>2 DEF UpToDate, Compared, InService
    <3> QED
      BY <3>3, <3>4
  <2>6. CASE Pour(d)
    <3>1. Forget({d}) /\ UNCHANGED service /\ pc[d] = "pour"
      BY <2>6 DEF Pour, Return
    <3>2. CASE shown = job[d].mine
      <4>1. Put(d, job[d].text, FALSE)
        BY <2>6, <3>2 DEF Pour
      <4>2. \A c \in Callers \ {d} : pc[c] \in Compared => c \in raced'
        BY <3>1, <4>1, PutOvertakes
      <4>3. raced \subseteq raced'
        BY <4>1 DEF Put
      <4> QED
        BY <3>1, <4>2, <4>3, ForgetStaysUpToDate
    <3>3. CASE shown # job[d].mine
      BY <2>6, <3>1, <3>3, ForgetStaysUpToDate DEF Pour, disk
    <3> QED
      BY <3>2, <3>3
  <2> QED
    BY <1>3, <2>1, <2>2, <2>3, <2>4, <2>5, <2>6 DEF CallStep
<1>4. CASE Remove
  <2>1. \A c \in Callers : pc[c] \in Compared => c \in raced'
    BY <1>4 DEF Remove, Compared, Writing
  <2> QED
    BY <1>4, <2>1, OthersStayUpToDate DEF Remove
<1>5. CASE Writeback
  BY <1>5, OthersStayUpToDate DEF Writeback, ghost
<1>6. ASSUME NEW C \in Processes, Crash(C) PROVE \A c \in Callers : UpToDate(c)'
  <2>1. C \in SUBSET Callers
    BY DEF Processes
  <2> QED
    BY <1>6, <2>1, ForgetStaysUpToDate DEF Crash, disk
<1>7. CASE PowerLoss
  BY <1>7, ForgetStaysUpToDate DEF PowerLoss
<1> QED
  BY <1>1, <1>2, <1>3, <1>4, <1>5, <1>6, <1>7 DEF Next

-----------------------------------------------------------------------------
\* Calls that end forget the version they made.
LEMMA ForgetVersions ==
  ASSUME TypeOK, Versions, NEW C \in SUBSET Callers, Forget(C)
  PROVE  \A c \in Callers : job'[c].mine <= shown
<1>1. NoJob.mine = 0 /\ shown \in Nat
  BY DEF NoJob, TypeOK
<1> QED
  BY <1>1 DEF Forget, Versions

\* No step acknowledges a version ahead of the disk, and none takes the disk back.
LEMMA VersionsStep == TypeOK /\ IndInv /\ [Next]_vars => Versions'
<1> SUFFICES ASSUME TypeOK, Versions, [Next]_vars PROVE Versions'
  BY DEF IndInv
<1>0. /\ made \in Nat /\ shown \in Nat /\ kept \in Nat /\ acked \in Nat
      /\ job \in [Callers -> Job]
      /\ \A c \in Callers : job[c].mine \in Nat
  BY DEF TypeOK, Job
<1>1. CASE UNCHANGED vars
  BY <1>1 DEF vars, disk, ghost, Versions
<1>2. ASSUME NEW d \in Callers, NEW kind \in Kinds, NEW s \in Spans, NEW n \in Spans,
             Begin(d, kind, s, n)
      PROVE  Versions'
  BY <1>2 DEF Begin, disk, ghost, Versions
<1>3. ASSUME NEW d \in Callers, CallStep(d) PROVE Versions'
  <2>1. CASE Look(d) \/ Lock(d) \/ Read(d) \/ MakeTemp(d) \/ FillTemp(d) \/ Unlink(d)
    <3>1. UNCHANGED <<made, shown, kept, acked>>
      BY <2>1 DEF Look, Lock, Read, MakeTemp, FillTemp, Unlink, disk, ghost
    <3>2. ASSUME NEW c \in Callers PROVE job'[c].mine = job[c].mine
      BY <1>0, <2>1 DEF Look, Lock, Read, MakeTemp, FillTemp, Unlink, Job
    <3> QED
      BY <3>1, <3>2 DEF Versions
  <2>2. CASE ReadReturns(d) \/ Fails(d) \/ FailsLate(d)
    <3>1. Forget({d}) /\ UNCHANGED <<made, shown, kept, acked>>
      BY <2>2 DEF ReadReturns, Fails, FailsLate, Return, ReturnError, disk
    <3> QED
      BY <3>1, ForgetVersions DEF Versions
  <2>3. CASE Rename(d)
    <3>1. Forget({d}) /\ shown' = made + 1 /\ made' = made + 1 /\ UNCHANGED <<kept, acked>>
      BY <2>3 DEF Rename, Return, Put
    <3>2. \A c \in Callers : job'[c].mine \in Nat /\ job'[c].mine <= shown
      BY <1>0, <3>1, ForgetVersions, ForgetTypes DEF Job
    <3> QED
      BY <1>0, <3>1, <3>2 DEF Versions
  <2>4. CASE RenameOpts(d) \/ Link(d) \/ OpenExclusive(d)
    <3>1. shown' = made + 1 /\ made' = made + 1 /\ UNCHANGED <<kept, acked>>
      BY <2>4 DEF RenameOpts, Link, OpenExclusive, Put
    <3>2. ASSUME NEW c \in Callers PROVE job'[c].mine \in {job[c].mine, made + 1}
      BY <1>0, <2>4 DEF RenameOpts, Link, OpenExclusive, Job
    <3> QED
      BY <1>0, <3>1, <3>2 DEF Versions
  <2>5. CASE SyncDir(d)
    <3>1. Forget({d}) /\ kept' = shown /\ UNCHANGED <<made, shown>>
      BY <2>5 DEF SyncDir, Return
    <3>2. acked' \in {acked, job[d].mine}
      BY <2>5 DEF SyncDir, Acknowledge
    <3> QED
      BY <1>0, <3>1, <3>2, ForgetVersions DEF Versions
  <2>6. CASE Pour(d)
    <3>1. Forget({d}) /\ acked' = acked
      BY <2>6 DEF Pour, Return
    <3>2. \A c \in Callers : job'[c].mine \in Nat /\ job'[c].mine <= shown
      BY <1>0, <3>1, ForgetVersions, ForgetTypes DEF Job
    <3>3. kept' = kept /\ (UNCHANGED <<made, shown>> \/ (shown' = made + 1 /\ made' = made + 1))
      BY <2>6 DEF Pour, Put, disk
    <3> QED
      BY <1>0, <3>1, <3>2, <3>3 DEF Versions
  <2> QED
    BY <1>3, <2>1, <2>2, <2>3, <2>4, <2>5, <2>6 DEF CallStep
<1>4. CASE Remove
  BY <1>0, <1>4 DEF Remove, Versions
<1>5. CASE Writeback
  BY <1>0, <1>5 DEF Writeback, Versions, ghost
<1>6. ASSUME NEW C \in Processes, Crash(C) PROVE Versions'
  <2>1. C \in SUBSET Callers
    BY DEF Processes
  <2> QED
    BY <1>6, <2>1, ForgetVersions DEF Crash, disk, Versions
<1>7. CASE PowerLoss
  <2>1. \A c \in Callers : job'[c].mine = 0
    BY <1>7 DEF PowerLoss, Forget, NoJob
  <2> QED
    BY <1>0, <1>7, <2>1 DEF PowerLoss, Versions
<1> QED
  BY <1>1, <1>2, <1>3, <1>4, <1>5, <1>6, <1>7 DEF Next

-----------------------------------------------------------------------------
\* A text of spans shows no debris.
LEMMA SpansAreNotTorn ==
  ASSUME NEW T \in Seq(Spans)
  PROVE  Found(T, Torn) = {}
<1> SUFFICES ASSUME NEW i \in Found(T, Torn) PROVE FALSE
  OBVIOUS
<1>1. Len(T) \in Nat /\ Len(Torn) = 1
  BY DEF Torn
<1>2. i \in 1..Len(T) /\ SubSeq(T, i, i) = <<Debris>>
  BY <1>1 DEF Found, Torn
<1>3. T[i] = Debris
  <2>1. i \in Int /\ \A j \in i..i : T[j] \in Spans
    BY <1>1, <1>2
  <2>2. SubSeq(T, i, i)[1] = T[i]
    BY <2>1, SubSeqProperties
  <2> QED
    BY <1>2, <2>2
<1>4. T[i] \in Spans
  BY <1>2
<1> QED
  BY <1>3, <1>4, EditAssumption

\* Calls that end carry nothing on.
LEMMA ForgetIntact ==
  ASSUME NEW C \in SUBSET Callers, Forget(C), \A c \in Callers : CarriesIntact(c)
  PROVE  \A c \in Callers : CarriesIntact(c)'
<1> SUFFICES ASSUME NEW c \in Callers PROVE CarriesIntact(c)'
  OBVIOUS
<1>1. NoJob.looked = <<>> /\ NoJob.text = <<>>
  BY DEF NoJob
<1>2. CASE c \in C
  <2>1. job'[c] = NoJob /\ pc'[c] = "idle"
    BY <1>2 DEF Forget
  <2>2. <<>> \in Seq(Spans)
    OBVIOUS
  <2> QED
    BY <1>1, <2>1, <2>2 DEF CarriesIntact
<1>3. CASE c \notin C
  BY <1>3 DEF Forget, CarriesIntact
<1> QED
  BY <1>2, <1>3

\* No step but those of CreateExclusive shows, keeps or carries debris.
LEMMA IntactStep == TypeOK /\ IndInv /\ [Next]_vars => Intact'
<1> SUFFICES ASSUME TypeOK, Intact, \A c \in Callers : UpToDate(c), [Next]_vars, ~exclusive'
             PROVE  /\ sound'
                    /\ target' \in Seq(Spans) \cup {Absent} /\ durable' \in Seq(Spans) \cup {Absent}
                    /\ \A c \in Callers : CarriesIntact(c)'
  BY DEF IndInv, Intact
<1> DEFINE W == Seq(Spans) \cup {Absent}
           Goal == sound' /\ target' \in W /\ durable' \in W /\ \A c \in Callers : CarriesIntact(c)'
<1>0. /\ pc \in [Callers -> Steps] /\ job \in [Callers -> Job]
  BY DEF TypeOK
<1>1. CASE UNCHANGED vars
  BY <1>1 DEF vars, disk, ghost, Intact, CarriesIntact
<1>2. ASSUME NEW d \in Callers, NEW kind \in Kinds, NEW s \in Spans, NEW n \in Spans,
             Begin(d, kind, s, n)
      PROVE  Goal
  <2>1. UNCHANGED <<target, durable, sound, job, exclusive>>
    BY <1>2 DEF Begin, disk, ghost
  <2>2. ASSUME NEW c \in Callers PROVE pc'[c] \in {pc[c], "read", "look", "lock"}
    BY <1>2, <1>0 DEF Begin, Goto
  <2> QED
    BY <2>1, <2>2 DEF Intact, CarriesIntact
<1>3. ASSUME NEW d \in Callers, CallStep(d) PROVE Goal
  <2>1. CASE Look(d)
    <3>1. UNCHANGED <<target, durable, sound, exclusive>> /\ target # Absent
      BY <2>1 DEF Look, disk, ghost
    <3>2. ASSUME NEW c \in Callers PROVE CarriesIntact(c)'
      <4>1. CASE c = d
        BY <1>0, <2>1, <3>1, <4>1 DEF Look, Goto, Job, Intact, CarriesIntact
      <4>2. CASE c # d
        BY <1>0, <2>1, <3>1, <4>2 DEF Look, Goto, Intact, CarriesIntact
      <4> QED
        BY <4>1, <4>2
    <3> QED
      BY <3>1, <3>2 DEF Intact
  <2>2. CASE Lock(d)
    BY <1>0, <2>2 DEF Lock, Goto, disk, ghost, Intact, CarriesIntact
  <2>3. CASE Read(d)
    <3>1. UNCHANGED <<target, durable, sound, exclusive>>
      BY <2>3 DEF Read, disk
    <3>2. Desired(d) \in Seq(Spans)
      <4>1. req[d] \in Request /\ Changes(d)
        BY <2>3 DEF Read, UpToDate
      <4>2. target \in Seq(Spans) \cup {Absent} /\ job[d].looked \in Seq(Spans)
        BY <3>1 DEF Intact, CarriesIntact
      <4> QED
        BY <4>1, <4>2, InstallsText
    <3>3. ASSUME NEW c \in Callers PROVE CarriesIntact(c)'
      <4>1. CASE c = d
        BY <1>0, <2>3, <3>1, <3>2, <4>1 DEF Read, Goto, Job, Intact, CarriesIntact
      <4>2. CASE c # d
        BY <1>0, <2>3, <3>1, <4>2 DEF Read, Goto, Intact, CarriesIntact
      <4> QED
        BY <4>1, <4>2
    <3> QED
      BY <3>1, <3>3 DEF Intact
  <2>4. CASE ReadReturns(d) \/ Fails(d) \/ FailsLate(d)
    <3>1. Forget({d}) /\ UNCHANGED <<target, durable, sound, exclusive>>
      BY <2>4 DEF ReadReturns, Fails, FailsLate, Return, ReturnError, disk
    <3> QED
      BY <3>1, ForgetIntact DEF Intact
  <2>5. CASE MakeTemp(d) \/ FillTemp(d) \/ Unlink(d)
    <3>1. UNCHANGED <<target, durable, sound, exclusive>>
      BY <2>5 DEF MakeTemp, FillTemp, Unlink, disk, ghost
    <3>2. ASSUME NEW c \in Callers PROVE CarriesIntact(c)'
      <4>1. CarriesIntact(c)
        BY <3>1 DEF Intact
      <4>2. job'[c].looked = job[c].looked /\ job'[c].text = job[c].text
        BY <1>0, <2>5 DEF MakeTemp, FillTemp, Unlink, Job
      <4>3. /\ pc'[c] \in {pc[c], "fill", "install", "sync"}
            /\ pc'[c] = "install" => job'[c].temp = "synced"
        BY <1>0, <2>5, <4>1 DEF MakeTemp, FillTemp, Unlink, Goto, Job, CarriesIntact
      <4> QED
        BY <4>1, <4>2, <4>3 DEF CarriesIntact
    <3> QED
      BY <3>1, <3>2 DEF Intact
  <2>6. CASE Rename(d)
    <3>1. UNCHANGED <<durable, exclusive>> /\ target' = job[d].text /\ sound' = (job[d].temp = "synced")
      BY <2>6 DEF Rename, Put
    <3>2. pc[d] = "install" /\ Forget({d})
      BY <2>6 DEF Rename, Return
    <3> QED
      BY <3>1, <3>2, ForgetIntact DEF Intact, CarriesIntact
  <2>7. CASE RenameOpts(d) \/ Link(d)
    <3>1. UNCHANGED <<durable, exclusive>> /\ target' = job[d].text /\ sound' = (job[d].temp = "synced")
      BY <2>7 DEF RenameOpts, Link, Put
    <3>2. pc[d] = "install"
      BY <2>7 DEF RenameOpts, Link
    <3>3. ASSUME NEW c \in Callers PROVE CarriesIntact(c)'
      <4>1. CarriesIntact(c)
        BY <3>1 DEF Intact
      <4>2. job'[c].looked = job[c].looked /\ job'[c].text = job[c].text
        BY <1>0, <2>7 DEF RenameOpts, Link, Job
      <4>3. pc'[c] \in {"unlink", "sync"} \/ (pc'[c] = pc[c] /\ job'[c] = job[c])
        BY <1>0, <2>7 DEF RenameOpts, Link, Goto
      <4> QED
        BY <4>1, <4>2, <4>3 DEF CarriesIntact
    <3> QED
      BY <3>1, <3>2, <3>3 DEF Intact, CarriesIntact
  <2>8. CASE SyncDir(d)
    <3>1. Forget({d}) /\ UNCHANGED <<target, sound, exclusive>>
      BY <2>8 DEF SyncDir, Return
    <3>2. durable' = target
      BY <2>8, <3>1 DEF SyncDir, Intact
    <3> QED
      BY <3>1, <3>2, ForgetIntact DEF Intact
  <2>9. CASE OpenExclusive(d)
    BY <2>9 DEF OpenExclusive
  <2>10. CASE Pour(d)
    BY <2>10 DEF Pour, Intact, CarriesIntact
  <2> QED
    BY <1>3, <2>1, <2>2, <2>3, <2>4, <2>5, <2>6, <2>7, <2>8, <2>9, <2>10 DEF CallStep
<1>4. CASE Remove
  BY <1>4 DEF Remove, Intact, CarriesIntact
<1>5. ASSUME NEW C \in Processes, Crash(C) PROVE Goal
  <2>1. C \in SUBSET Callers
    BY DEF Processes
  <2> QED
    BY <1>5, <2>1, ForgetIntact DEF Crash, disk, Intact
<1>6. CASE Writeback
  BY <1>6 DEF Writeback, ghost, Intact, CarriesIntact
<1>7. CASE PowerLoss
  BY <1>7, ForgetIntact DEF PowerLoss, Intact
<1> QED
  BY <1>1, <1>2, <1>3, <1>4, <1>5, <1>6, <1>7 DEF Next

-----------------------------------------------------------------------------
\* A span is found where the text has it.
LEMMA SpanFound ==
  ASSUME NEW E, NEW X \in Seq(E), NEW s \in E
  PROVE  Found(X, <<s>>) = {i \in 1..Len(X) : X[i] = s}
<1>1. Len(X) \in Nat /\ Len(<<s>>) = 1
  OBVIOUS
<1>2. ASSUME NEW i \in 1..Len(X) PROVE SubSeq(X, i, i) = <<s>> <=> X[i] = s
  <2>1. Len(SubSeq(X, i, i)) = 1 /\ SubSeq(X, i, i)[1] = X[i] /\ SubSeq(X, i, i) \in Seq(E)
    BY <1>1, SubSeqProperties
  <2>2. <<s>> \in Seq(E) /\ <<s>>[1] = s
    OBVIOUS
  <2>3. ASSUME X[i] = s PROVE SubSeq(X, i, i) = <<s>>
    <3> DEFINE u == SubSeq(X, i, i)
    <3> HIDE DEF u
    <3>1. Len(u) = 1 /\ u[1] = s /\ u \in Seq(E)
      BY <2>1, <2>3 DEF u
    <3>2. \A j \in 1..Len(u) : u[j] = <<s>>[j]
      BY <2>2, <3>1
    <3>3. Len(u) = Len(<<s>>)
      BY <3>1
    <3> QED
      BY <2>2, <3>1, <3>2, <3>3, SeqEqual DEF u
  <2> QED
    BY <2>1, <2>2, <2>3
<1> QED
  BY <1>1, <1>2 DEF Found

\* A span appended to a text that does not have it occurs once.
LEMMA AppendedOnce ==
  ASSUME NEW E, NEW T \in Seq(E), NEW s \in E, Found(T, <<s>>) = {}
  PROVE  Once(Append(T, s), <<s>>)
<1> DEFINE A == Append(T, s)
<1>1. /\ A \in Seq(E) /\ Len(A) = Len(T) + 1 /\ A[Len(T) + 1] = s /\ Len(T) \in Nat
      /\ \A i \in 1..Len(T) : A[i] = T[i]
  BY AppendProperties
<1> HIDE DEF A
<1>2. \A i \in 1..Len(T) : T[i] # s
  BY SpanFound
<1>3. Found(A, <<s>>) = {i \in 1..Len(A) : A[i] = s}
  BY <1>1, SpanFound
<1>4. Found(A, <<s>>) = {Len(T) + 1}
  BY <1>1, <1>2, <1>3
<1> QED
  BY <1>1, <1>4 DEF Once, A

\* Replacing a whole text by another (an Edit whose old text is the file) gives that.
LEMMA ReplaceWhole ==
  ASSUME NEW E, NEW T \in Seq(E), NEW new \in Seq(E), T # <<>>
  PROVE  Found(T, T) = {1} /\ ReplaceFirst(T, T, new) = new
<1>1. Len(T) \in Nat /\ Len(T) # 0 /\ SubSeq(T, 1, Len(T)) = T
  BY SubSeqProperties
<1>2. Found(T, T) = {1}
  BY <1>1 DEF Found
<1> DEFINE k == CHOOSE i \in Found(T, T) : \A j \in Found(T, T) : i <= j
<1>3. k = 1
  BY <1>2
<1> HIDE DEF k
<1>4. SubSeq(T, 1, 0) = <<>> /\ SubSeq(T, 1 + Len(T), Len(T)) = <<>>
  BY <1>1, SubSeqProperties
<1>5. <<>> \o new \o <<>> = new
  BY ConcatEmptySeq
<1> QED
  BY <1>2, <1>3, <1>4, <1>5 DEF ReplaceFirst, k

\* Replacing a span by itself (the Edit append_unique asks for when the span is
\* there) changes nothing.
LEMMA ReplaceSame ==
  ASSUME NEW E, NEW T \in Seq(E), NEW s \in E, Once(T, <<s>>)
  PROVE  ReplaceFirst(T, <<s>>, <<s>>) = T
<1> DEFINE k == CHOOSE i \in Found(T, <<s>>) : \A j \in Found(T, <<s>>) : i <= j
           A == SubSeq(T, 1, k - 1)
           B == SubSeq(T, k + 1, Len(T))
<1>1. k \in Found(T, <<s>>)
  BY DEF Once
<1>2. Len(<<s>>) = 1 /\ Len(T) \in Nat /\ <<s>> \in Seq(E)
  OBVIOUS
<1> HIDE DEF k
<1>3. k \in 1..Len(T) /\ k \in Int
  BY <1>1, <1>2, SpanFound
<1>4. T[k] = s
  BY <1>1, SpanFound
<1>5. A \in Seq(E) /\ Len(A) = k - 1 /\ \A i \in 1..(k - 1) : A[i] = T[i]
  BY <1>2, <1>3, SubSeqProperties
<1>6. B \in Seq(E) /\ Len(B) = Len(T) - k /\ \A i \in 1..(Len(T) - k) : B[i] = T[k + i]
  BY <1>2, <1>3, SubSeqProperties
<1> HIDE DEF A, B
<1> DEFINE C == A \o <<s>>
           D == C \o B
<1>7. C \in Seq(E) /\ Len(C) = k /\ \A i \in 1..k : C[i] = IF i <= k - 1 THEN A[i] ELSE <<s>>[i - (k - 1)]
  BY <1>2, <1>3, <1>5, ConcatProperties
<1> HIDE DEF C
<1>8. ASSUME NEW i \in 1..k PROVE C[i] = T[i]
  <2>1. CASE i <= k - 1
    BY <1>2, <1>3, <1>5, <1>7, <2>1
  <2>2. CASE i = k
    BY <1>2, <1>3, <1>4, <1>7, <2>2
  <2> QED
    BY <1>3, <2>1, <2>2
<1>9. /\ D \in Seq(E) /\ Len(D) = Len(T)
      /\ \A i \in 1..Len(T) : D[i] = IF i <= k THEN C[i] ELSE B[i - k]
  <2>1. /\ D \in Seq(E) /\ Len(D) = Len(C) + Len(B)
        /\ \A i \in 1..(Len(C) + Len(B)) : D[i] = IF i <= Len(C) THEN C[i] ELSE B[i - Len(C)]
    BY <1>6, <1>7, ConcatProperties
  <2>2. Len(C) = k /\ Len(C) + Len(B) = Len(T)
    BY <1>2, <1>3, <1>6, <1>7
  <2> QED
    BY <2>1, <2>2
<1> HIDE DEF D
<1>10. ASSUME NEW i \in 1..Len(T) PROVE D[i] = T[i]
  <2>1. CASE i <= k
    BY <1>2, <1>3, <1>8, <1>9, <2>1
  <2>2. CASE i > k
    <3>1. i - k \in 1..(Len(T) - k) /\ k + (i - k) = i
      BY <1>2, <1>3, <2>2
    <3>2. B[i - k] = T[i]
      BY <1>6, <3>1
    <3> QED
      BY <1>3, <1>9, <2>2, <3>2
  <2> QED
    BY <1>3, <2>1, <2>2
<1>11. D = T
  BY <1>9, <1>10, SeqEqual
<1> QED
  BY <1>2, <1>11 DEF ReplaceFirst, k, A, B, C, D

\* What an append goes on to install, when it looked at the text its guard admits,
\* has the span once.
LEMMA AppendDesired ==
  ASSUME TypeOK, NEW c \in Callers, req[c] \in Request, req[c].kind = "append",
         req[c].expected # NoHash, InService(c) => job[c].looked = req[c].expected, Changes(c)
  PROVE  Once(Desired(c), <<req[c].span>>)
<1> DEFINE s == req[c].span
           E == Spans \cup {Debris}
<1>1. Admits(c) /\ Desired(c) # Refused /\ Desired(c) # target /\ s \in E
  BY DEF Changes, Request
<1>2. target \in Seq(E) /\ req[c].expected = target
  BY <1>1 DEF Admits, ServiceAdmits, FileopsAdmits, MatchExpected, TypeOK, Text
<1>3. <<s>> # <<>> /\ <<s>> \in Seq(E) /\ Append(target, s) \in Seq(E)
  BY <1>1, <1>2, AppendProperties
<1>4. CASE ~InService(c)
  <2>1. Desired(c) = AppendUnique(target, s)
    BY <1>4 DEF Desired, FileopsDesired
  <2>2. Found(target, <<s>>) = {} /\ Desired(c) = Append(target, s)
    BY <1>1, <2>1 DEF AppendUnique
  <2> QED
    BY <1>1, <1>2, <2>2, AppendedOnce
<1>5. CASE InService(c)
  <2>1. Desired(c) = AppendUniqueEdit(target, target, s)
    BY <1>2, <1>5 DEF Desired, ServiceDesired
  <2>2. Found(target, <<s>>) = {}
    <3> SUFFICES ASSUME Found(target, <<s>>) # {} PROVE FALSE
      OBVIOUS
    <3>1. Desired(c) = ApplyUniqueReplacement(target, <<s>>, <<s>>)
      BY <2>1 DEF AppendUniqueEdit
    <3>2. Once(target, <<s>>)
      BY <1>1, <1>3, <3>1 DEF ApplyUniqueReplacement
    <3>3. Desired(c) = ReplaceFirst(target, <<s>>, <<s>>)
      BY <1>3, <3>1, <3>2 DEF ApplyUniqueReplacement
    <3> QED
      BY <1>1, <1>2, <3>2, <3>3, ReplaceSame
  <2>3. Desired(c) = ApplyUniqueReplacement(target, target, Append(target, s))
    BY <2>1, <2>2 DEF AppendUniqueEdit
  <2>4. Desired(c) = Append(target, s)
    <3>1. CASE target = <<>>
      BY <2>3, <3>1 DEF ApplyUniqueReplacement
    <3>2. CASE target # <<>>
      <4>1. Found(target, target) = {1} /\ ReplaceFirst(target, target, Append(target, s)) = Append(target, s)
        BY <1>2, <1>3, <3>2, ReplaceWhole
      <4>2. Len(target) \in Nat /\ Len(target) # 0
        BY <1>2, <3>2
      <4>3. Once(target, target)
        BY <4>1, <4>2 DEF Once
      <4> QED
        BY <2>3, <3>2, <4>1, <4>3 DEF ApplyUniqueReplacement
    <3> QED
      BY <3>1, <3>2
  <2> QED
    BY <1>1, <1>2, <2>2, <2>4, AppendedOnce
<1> QED
  BY <1>4, <1>5

\* A step that leaves c's request, or ends its call, leaves its append as it is.
LEMMA StaysAppending ==
  ASSUME NEW c \in Callers, Appending(c), UNCHANGED service,
         \/ pc'[c] = "idle"
         \/ /\ pc[c] # "idle" /\ req'[c] = req[c]
            /\ \/ pc'[c] \notin Writing
               \/ pc[c] \in Writing /\ job'[c].looked = job[c].looked /\ job'[c].text = job[c].text
  PROVE  Appending(c)'
<1>1. CASE pc'[c] = "idle"
  BY <1>1 DEF Appending, AppendOnce, Writing
<1>2. CASE pc'[c] \notin Writing /\ pc[c] # "idle" /\ req'[c] = req[c]
  BY <1>2 DEF Appending, AppendOnce
<1>3. CASE /\ pc[c] \in Writing /\ req'[c] = req[c]
           /\ job'[c].looked = job[c].looked /\ job'[c].text = job[c].text
  BY <1>3 DEF Appending, AppendOnce, InService, Writing
<1> QED
  BY <1>1, <1>2, <1>3

\* A caller a step does not concern stays as it is.
LEMMA OthersStayAppending ==
  ASSUME NEW c \in Callers, Appending(c), UNCHANGED service,
         pc'[c] = pc[c], req'[c] = req[c], job'[c] = job[c]
  PROVE  Appending(c)'
BY DEF Appending, AppendOnce, InService

\* Calls that end append nothing more, and the others stay as they are.
LEMMA ForgetStaysAppending ==
  ASSUME NEW C \in SUBSET Callers, Forget(C), UNCHANGED service, \A c \in Callers : Appending(c)
  PROVE  \A c \in Callers : Appending(c)'
<1> SUFFICES ASSUME NEW c \in Callers PROVE Appending(c)'
  OBVIOUS
<1>1. CASE c \in C
  BY <1>1, StaysAppending DEF Forget
<1>2. CASE c \notin C
  BY <1>2, OthersStayAppending DEF Forget
<1> QED
  BY <1>1, <1>2

\* No step prepares an append that would leave the span twice.
LEMMA AppendStep == TypeOK /\ IndInv /\ [Next]_vars => (\A c \in Callers : Appending(c))'
<1> SUFFICES ASSUME TypeOK, \A c \in Callers : UpToDate(c), \A c \in Callers : Appending(c), [Next]_vars
             PROVE  \A c \in Callers : Appending(c)'
  BY DEF IndInv
<1>0. /\ pc \in [Callers -> Steps] /\ job \in [Callers -> Job]
      /\ req \in [Callers -> Request \cup {NoRequest}]
  BY DEF TypeOK
<1>1. CASE UNCHANGED vars
  BY <1>1, OthersStayAppending DEF vars
<1>2. ASSUME NEW d \in Callers, NEW kind \in Kinds, NEW s \in Spans, NEW n \in Spans,
             Begin(d, kind, s, n)
      PROVE  \A c \in Callers : Appending(c)'
  <2>1. ASSUME NEW c \in Callers \ {d} PROVE Appending(c)'
    BY <1>0, <1>2, <2>1, OthersStayAppending DEF Begin, Goto
  <2>2. Appending(d)'
    <3>1. pc'[d] \in {"read", "look", "lock"}
      BY <1>0, <1>2 DEF Begin, Goto
    <3>2. req'[d].kind = "append" => req'[d].expected # NoHash
      BY <1>0, <1>2 DEF Begin
    <3> QED
      BY <3>1, <3>2 DEF Appending, AppendOnce, Writing
  <2> QED
    BY <2>1, <2>2
<1>3. ASSUME NEW d \in Callers, CallStep(d) PROVE \A c \in Callers : Appending(c)'
  <2>1. CASE Look(d) \/ Lock(d) \/ OpenExclusive(d)
    <3>1. UNCHANGED <<service, req>>
      BY <2>1 DEF Look, Lock, OpenExclusive
    <3>2. ASSUME NEW c \in Callers \ {d} PROVE pc'[c] = pc[c] /\ job'[c] = job[c]
      BY <1>0, <2>1 DEF Look, Lock, OpenExclusive, Goto
    <3>3. pc[d] # "idle" /\ pc'[d] \notin Writing
      BY <1>0, <2>1 DEF Look, Lock, OpenExclusive, Goto, Writing
    <3>4. Appending(d)'
      BY <3>1, <3>3, StaysAppending
    <3>5. ASSUME NEW c \in Callers \ {d} PROVE Appending(c)'
      BY <3>1, <3>2, OthersStayAppending
    <3> QED
      BY <3>4, <3>5
  <2>2. CASE Read(d)
    <3>1. UNCHANGED <<service, req>> /\ pc[d] = "read" /\ Changes(d)
      BY <2>2 DEF Read
    <3>2. ASSUME NEW c \in Callers \ {d} PROVE Appending(c)'
      BY <1>0, <2>2, <3>1, <3>2, OthersStayAppending DEF Read, Goto
    <3>3. job'[d].text = Desired(d) /\ job'[d].looked = job[d].looked
      BY <1>0, <2>2 DEF Read, Job
    <3>4. req[d] \in Request /\ (req[d].kind = "append" => req[d].expected # NoHash)
      BY <3>1 DEF UpToDate, Appending
    <3>5. AppendOnce(d)'
      BY <3>1, <3>3, <3>4, AppendDesired DEF AppendOnce, InService
    <3> QED
      BY <3>1, <3>2, <3>4, <3>5 DEF Appending
  <2>3. CASE ReadReturns(d) \/ Fails(d) \/ FailsLate(d) \/ Rename(d) \/ SyncDir(d) \/ Pour(d)
    <3>1. Forget({d}) /\ UNCHANGED service
      BY <2>3 DEF ReadReturns, Fails, FailsLate, Rename, SyncDir, Pour, Return, ReturnError
    <3> QED
      BY <3>1, ForgetStaysAppending
  <2>4. CASE MakeTemp(d) \/ FillTemp(d) \/ Unlink(d) \/ RenameOpts(d) \/ Link(d)
    <3>1. UNCHANGED <<service, req>>
      BY <2>4 DEF MakeTemp, FillTemp, Unlink, RenameOpts, Link
    <3>2. ASSUME NEW c \in Callers \ {d} PROVE pc'[c] = pc[c] /\ job'[c] = job[c]
      BY <1>0, <2>4 DEF MakeTemp, FillTemp, Unlink, RenameOpts, Link, Goto
    <3>3. job'[d].looked = job[d].looked /\ job'[d].text = job[d].text
      BY <1>0, <2>4 DEF MakeTemp, FillTemp, Unlink, RenameOpts, Link, Job
    <3>4. pc[d] \in Writing /\ pc[d] # "idle"
      BY <2>4 DEF MakeTemp, FillTemp, Unlink, RenameOpts, Link, Writing
    <3>5. Appending(d)'
      BY <3>1, <3>3, <3>4, StaysAppending
    <3>6. ASSUME NEW c \in Callers \ {d} PROVE Appending(c)'
      BY <3>1, <3>2, OthersStayAppending
    <3> QED
      BY <3>5, <3>6
  <2> QED
    BY <1>3, <2>1, <2>2, <2>3, <2>4 DEF CallStep
<1>4. CASE Remove \/ Writeback
  BY <1>4, OthersStayAppending DEF Remove, Writeback
<1>5. ASSUME NEW C \in Processes, Crash(C) PROVE \A c \in Callers : Appending(c)'
  <2>1. C \in SUBSET Callers
    BY DEF Processes
  <2> QED
    BY <1>5, <2>1, ForgetStaysAppending DEF Crash
<1>6. CASE PowerLoss
  BY <1>6, ForgetStaysAppending DEF PowerLoss
<1> QED
  BY <1>1, <1>2, <1>3, <1>4, <1>5, <1>6 DEF Next

-----------------------------------------------------------------------------
\* At the start nobody calls and the file is absent or whole.
LEMMA InitHolds == Init => TypeOK /\ IndInv
<1> SUFFICES ASSUME Init PROVE TypeOK /\ IndInv
  OBVIOUS
<1>1. NoJob \in Job /\ NoJob.temp = "none"
  BY DEF NoJob, Job, Text
<1>2. target \in Text \cup {Absent}
  <2>1. \A s, t \in Spans : <<>> \in Text /\ <<s>> \in Text /\ <<s, t>> \in Text
    BY DEF Text
  <2>2. \/ target \in {Absent, <<>>}
        \/ \E s \in Spans : target = <<s>>
        \/ \E s, t \in Spans : target = <<s, t>>
    BY DEF Init
  <2>3. <<>> \in Text
    BY DEF Text
  <2> QED
    BY <2>1, <2>2, <2>3
<1>3. TypeOK
  <2>1. /\ pc \in [Callers -> Steps]
        /\ writeMu \in [Services -> Callers \cup {NoService}]
    BY DEF Init, Steps
  <2>2. /\ req \in [Callers -> Request \cup {NoRequest}]
        /\ job \in [Callers -> Job]
        /\ base \in [Callers -> Nat]
    BY <1>1 DEF Init
  <2>3. /\ made = 0 /\ shown = 0 /\ kept = 0 /\ acked = 0 /\ calls = 0 /\ crashes = 0
        /\ raced = {}
    BY DEF Init
  <2>4. service \in [Callers -> Services \cup {NoService}] /\ durable = target
    BY DEF Init
  <2>5. sound \in BOOLEAN /\ litter \in BOOLEAN /\ exclusive \in BOOLEAN
    BY DEF Init
  <2> QED
    BY <1>2, <2>1, <2>2, <2>3, <2>4, <2>5 DEF TypeOK
<1>4. OwnsItsParts
  BY <1>1, EditAssumption DEF Init, OwnsItsParts, HasTemp, Holding, Writing, InService
<1>5. \A c \in Callers : UpToDate(c)
  BY DEF Init, UpToDate, Compared
<1>6. Versions
  BY <1>3 DEF Init, Versions, NoJob
<1>7. Intact
  <2>1. <<>> \in Seq(Spans) /\ NoJob.looked = <<>> /\ NoJob.text = <<>>
    BY DEF NoJob
  <2>2. target \in Seq(Spans) \cup {Absent} /\ durable = target /\ sound = TRUE
    <3>1. \A s, t \in Spans : <<s>> \in Seq(Spans) /\ <<s, t>> \in Seq(Spans)
      OBVIOUS
    <3>2. \/ target \in {Absent, <<>>}
          \/ \E s \in Spans : target = <<s>>
          \/ \E s, t \in Spans : target = <<s, t>>
      BY DEF Init
    <3> QED
      BY <2>1, <3>1, <3>2 DEF Init
  <2>3. \A c \in Callers : CarriesIntact(c)
    BY <2>1 DEF Init, CarriesIntact
  <2> QED
    BY <2>2, <2>3 DEF Intact
<1>8. \A c \in Callers : Appending(c)
  BY DEF Init, Appending, AppendOnce, Writing
<1> QED
  BY <1>3, <1>4, <1>5, <1>6, <1>7, <1>8 DEF IndInv

\* Whatever calls, crashes and power losses come in whatever order, every state is
\* well typed and the inductive invariant holds: the mutex of a Service is held
\* exactly by the call that works on the file, temporary files do not outlive their
\* call, no version is acknowledged ahead of the disk, and between its comparison and
\* its install a call is up to date or has been overtaken by somebody its mutex does
\* not cover.
THEOREM Inductive == Spec => [](TypeOK /\ IndInv)
<1>1. TypeOK /\ IndInv /\ [Next]_vars => (TypeOK /\ IndInv)'
  BY TypeStep, LeakStep, VersionsStep, UpToDateStep, IntactStep, AppendStep DEF IndInv
<1> QED
  BY <1>1, InitHolds, PTL DEF Spec

\* Every state is well typed; in particular the file, as shown and as it survives a
\* power loss, is a text or absent.
THEOREM TypeCorrect == Spec => []TypeOK
BY Inductive, PTL

\* Whatever a call succeeds with, it leaves no temporary file behind.
THEOREM SuccessesAreTidy == Spec => SuccessIsTidy
<1> DEFINE Tidy(c) == Rename(c) \/ SyncDir(c) \/ Pour(c) => litter' = litter
<1>1. ASSUME IndInv, TypeOK, NEW c \in Callers PROVE Tidy(c)
  <2>1. CASE Rename(c)
    BY <2>1 DEF Rename
  <2>2. CASE SyncDir(c) \/ Pour(c)
    <3>1. pc[c] \in {"sync", "pour"} /\ litter' = (litter \/ HasTemp(c))
      BY <2>2 DEF SyncDir, Pour, Return
    <3>2. ~ HasTemp(c)
      BY <1>1, <3>1, Zenon DEF IndInv, OwnsItsParts
    <3>3. litter \in BOOLEAN
      BY <1>1 DEF TypeOK
    <3> QED
      BY <3>1, <3>2, <3>3
  <2> QED
    BY <2>1, <2>2
<1>2. TypeOK /\ IndInv => [\A c \in Callers : Tidy(c)]_vars
  BY <1>1
<1> QED
  BY <1>2, Inductive, PTL DEF SuccessIsTidy

\* A Write or Edit that a Service has acknowledged, its file and its directory synced
\* in that order, survives any later crash or power loss: what is there afterwards is
\* that version or a later one.
THEOREM AcknowledgedIsDurable == Spec => []AckedIsDurable
<1>1. IndInv => AckedIsDurable
  BY DEF IndInv, Versions, AckedIsDurable
<1> QED
  BY <1>1, Inductive, PTL

\* The promise of WriteFileAtomic, "a crash mid-write cannot truncate the file", for
\* everything but CreateExclusive: whatever fails or dies, the file that is seen, and
\* the one a power loss leaves, is whole.
THEOREM FilesAreWhole == Spec => []NeverTorn
<1>1. ASSUME Intact PROVE NeverTorn
  BY <1>1, SpansAreNotTorn DEF Intact, NeverTorn
<1>2. IndInv => NeverTorn
  BY <1>1 DEF IndInv
<1> QED
  BY <1>2, Inductive, PTL

\* append_unique of a Service and AppendUnique of fileops go on to install a text with
\* the span once, provided that append_unique, which reads before it takes the mutex,
\* read the text its Edit then found.
THEOREM AppendsAreUnique == Spec => []AppendsOnce
<1>1. IndInv => AppendsOnce
  BY DEF IndInv, Appending, AppendsOnce
<1> QED
  BY <1>1, Inductive, PTL

\* The optimistic guard: what Write and Edit replace is the text they compared with
\* expected_hash, unless somebody that writeMu does not cover has installed since;
\* and CreateOnly and CreateExclusive never replace a file.
THEOREM GuardsHold == Spec => GuardHolds
<1> DEFINE Step(c) == Installs(c) => /\ c \in raced \/ base[c] = shown
                                     /\ req[c].kind = "create" => target = Absent
<1>1. ASSUME TypeOK, IndInv, [Next]_vars, NEW c \in Callers, Installs(c)
      PROVE  /\ c \in raced \/ base[c] = shown
             /\ req[c].kind = "create" => target = Absent
  <2>1. UpToDate(c) /\ pc[c] \in {"install", "open"} /\ pc'[c] # pc[c] /\ made' # made
    BY <1>1 DEF IndInv, Installs
  <2>2. c \in raced \/ base[c] = shown
    BY <2>1 DEF UpToDate, Compared
  <2>3. Rename(c) \/ RenameOpts(c) \/ Link(c) \/ OpenExclusive(c)
    <3>1. ~UNCHANGED vars /\ ~Remove /\ ~Writeback /\ ~PowerLoss
      BY <2>1 DEF vars, disk, Remove, Writeback, PowerLoss
    <3>2. ~(\E C \in Processes : Crash(C))
      BY <2>1 DEF Crash, disk
    <3>3. ASSUME NEW d \in Callers, NEW kind \in Kinds, NEW s \in Spans, NEW n \in Spans,
                 Begin(d, kind, s, n)
          PROVE  FALSE
      BY <2>1, <3>3 DEF Begin, disk
    <3>4. PICK d \in Callers : CallStep(d)
      BY <1>1, <3>1, <3>2, <3>3 DEF Next
    <3>5. CASE d = c
      BY <2>1, <3>4, <3>5
      DEF CallStep, Look, Lock, Read, ReadReturns, MakeTemp, FillTemp, Unlink, SyncDir, Pour,
          Fails, FailsLate, disk
    <3>6. CASE d # c
      <4>1. CASE Forget({d})
        BY <2>1, <3>6, <4>1 DEF Forget
      <4>2. CASE \E step : Goto(d, step)
        BY <1>1, <2>1, <3>6, <4>2 DEF Goto, TypeOK
      <4> QED
        BY <3>4, <4>1, <4>2
        DEF CallStep, Look, Lock, Read, ReadReturns, MakeTemp, FillTemp, Rename, RenameOpts, Link,
            Unlink, SyncDir, OpenExclusive, Pour, Fails, FailsLate, Return, ReturnError
    <3> QED
      BY <3>5, <3>6
  <2>4. req[c].kind = "create" => target = Absent
    BY <2>1, <2>3 DEF Rename, RenameOpts, Link, OpenExclusive, UpToDate
  <2> QED
    BY <2>2, <2>4
<1>2. TypeOK /\ IndInv /\ [Next]_vars => [\A c \in Callers : Step(c)]_vars
  BY <1>1
<1> QED
  BY <1>2, Inductive, PTL DEF Spec, GuardHolds
================================================================================
