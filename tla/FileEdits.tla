------------------------------- MODULE FileEdits -------------------------------
(***************************************************************************)
(* The hash-guarded edits of one file and the atomic writes under them:    *)
(* Service.Write and Service.Edit (filesystem/write.go, edit.go), the      *)
(* append_unique of fstools/mcp_edit.go, the operations of                 *)
(* fileops/safe_edit.go, and safefs WriteFileAtomic, WriteFileAtomicOpts   *)
(* and CreateExclusive. A Service serializes its own writers by a mutex;   *)
(* other Services, other processes and fileops take no lock. Calls fail,   *)
(* processes die, and a power loss takes back what was not synced.         *)
(*                                                                         *)
(* A text is a sequence of spans, and its hash is the text. A file that is *)
(* there but not written, or not synced when the power went, is Torn.      *)
(***************************************************************************)
EXTENDS Naturals, Sequences, FiniteSets

CONSTANTS
  Callers,
  Services,     \* filesystem.Service instances over the root
  NoService,    \* the Service of a caller of fileops
  Spans,        \* pieces of text
  Debris,       \* what is left of a file that was cut short
  Absent,       \* there is no file
  NoHash,       \* expected_hash is not given
  WholeFile,    \* Limits.WholeFileBytes, in spans
  MaxCalls,     \* bound on calls
  MaxCrashes    \* bound on crashes and power losses

ASSUME EditAssumption ==
  /\ NoService \notin Services \cup Callers
  /\ Debris \notin Spans
  /\ {WholeFile, MaxCalls, MaxCrashes} \subseteq Nat

VARIABLES
  service,    \* the Service each caller uses
  target,     \* the file as everybody sees it
  durable,    \* the file as it is after a power loss
  sound,      \* the target's data is synced
  litter,     \* a call has left its temporary file behind
  made,       \* versions of the file made so far
  shown,      \* the version of target
  kept,       \* the version of durable
  writeMu,    \* who holds the mutex of each Service
  pc,         \* where each call is
  req,        \* its request
  job,        \* what it works on
  calls, crashes,   \* counted against their bounds
  base,       \* history: the version each call compared with its expected hash
  raced,      \* history: calls that an install their mutex does not cover has overtaken
  exclusive,  \* history: a CreateExclusive has made a file
  acked       \* history: the last version a Service acknowledged

disk == <<target, durable, sound, made, shown, kept>>
counters == <<calls, crashes>>
ghost == <<base, raced, exclusive, acked>>
vars == <<service, disk, litter, writeMu, pc, req, job, counters, ghost>>

Text == Seq(Spans \cup {Debris})
Torn == <<Debris>>
Kinds == {"write", "create", "edit", "append", "delete"}

Request == [kind : Kinds, span : Spans, new : Spans, expected : Text \cup {NoHash}]
NoRequest == [kind |-> "none"]

\* The text append_unique looked at, the text to install, the temporary file and
\* the version installed.
Job == [looked : Text, text : Text, temp : {"none", "partial", "synced"}, mine : Nat]
NoJob == [looked |-> <<>>, text |-> <<>>, temp |-> "none", mine |-> 0]

Writing == {"temp", "fill", "install", "unlink", "sync"}
Steps == {"idle", "look", "lock", "read", "open", "pour"} \cup Writing
Holding == Writing \cup {"read"}   \* in a Service: with its writeMu

InService(c) == service[c] # NoService
Mates(c, d) == InService(c) /\ service[d] = service[c]

TypeOK ==
  /\ service \in [Callers -> Services \cup {NoService}]
  /\ target \in Text \cup {Absent}
  /\ durable \in Text \cup {Absent}
  /\ sound \in BOOLEAN /\ litter \in BOOLEAN
  /\ made \in Nat /\ shown \in Nat /\ kept \in Nat /\ acked \in Nat
  /\ calls \in Nat /\ crashes \in Nat
  /\ writeMu \in [Services -> Callers \cup {NoService}]
  /\ pc \in [Callers -> Steps]
  /\ req \in [Callers -> Request \cup {NoRequest}]
  /\ job \in [Callers -> Job]
  /\ base \in [Callers -> Nat]
  /\ raced \subseteq Callers
  /\ exclusive \in BOOLEAN

Init ==
  /\ service \in [Callers -> Services \cup {NoService}]
  /\ target \in {Absent, <<>>} \cup {<<s>> : s \in Spans} \cup {<<s, t>> : s, t \in Spans}
  /\ durable = target
  /\ sound = TRUE /\ litter = FALSE
  /\ made = 0 /\ shown = 0 /\ kept = 0
  /\ writeMu = [s \in Services |-> NoService]
  /\ pc = [c \in Callers |-> "idle"]
  /\ req = [c \in Callers |-> NoRequest]
  /\ job = [c \in Callers |-> NoJob]
  /\ calls = 0 /\ crashes = 0
  /\ base = [c \in Callers |-> 0]
  /\ raced = {}
  /\ exclusive = FALSE
  /\ acked = 0

-----------------------------------------------------------------------------
(* What an edit makes of a text. *)

Found(T, old) ==
  {i \in 1..(Len(T) + 1 - Len(old)) : SubSeq(T, i, i + Len(old) - 1) = old}

\* strings.Count is one: nothing follows the first occurrence.
Once(T, old) ==
  \E i \in Found(T, old) : \A j \in Found(T, old) : i <= j /\ j < i + Len(old)

ReplaceFirst(T, old, new) ==
  LET i == CHOOSE i \in Found(T, old) : \A j \in Found(T, old) : i <= j IN
  SubSeq(T, 1, i - 1) \o new \o SubSeq(T, i + Len(old), Len(T))

\* One occurrence is replaced, an edit already made changes nothing, anything else
\* is refused.
Refused == Absent
ApplyUniqueReplacement(T, old, new) ==
  CASE old = <<>> -> IF T = <<>> THEN new ELSE Refused
    [] old # <<>> /\ Once(T, old) -> ReplaceFirst(T, old, new)
    [] old # <<>> /\ Found(T, old) = {} /\ Found(T, new) # {} -> T
    [] OTHER -> Refused

\* ReplaceUniqueSpan and DeleteExactBlock of fileops; their old text is not empty.
ReplaceUniqueSpan(T, old, new) ==
  IF Found(T, old) = {} THEN IF Found(T, new) # {} THEN T ELSE Refused
  ELSE IF Once(T, old) THEN ReplaceFirst(T, old, new) ELSE Refused

DeleteExactBlock(T, block) ==
  CASE Found(T, block) = {} -> T
    [] Once(T, block)       -> ReplaceFirst(T, block, <<>>)
    [] OTHER                -> Refused

\* fileops.AppendUnique
AppendUnique(T, s) == IF Found(T, <<s>>) # {} THEN T ELSE Append(T, s)

\* Faulty form: append_unique does not look for the span.
AppendAlways(T, L, s) == ApplyUniqueReplacement(T, L, Append(L, s))

\* appendUniqueRequest, from the text L it has read, and the Edit of T it asks for.
AppendUniqueEdit(T, L, s) ==
  IF Found(L, <<s>>) # {} THEN ApplyUniqueReplacement(T, <<s>>, <<s>>)
  ELSE ApplyUniqueReplacement(T, L, Append(L, s))

\* What a Service and what fileops make of the file for a request r.
ServiceDesired(r, looked) ==
  CASE r.kind \in {"write", "create"} -> <<r.span>>
    [] r.kind = "edit"   -> ApplyUniqueReplacement(target, <<r.span>>, <<r.new>>)
    [] r.kind = "delete" -> ApplyUniqueReplacement(target, <<r.span>>, <<>>)
    [] r.kind = "append" -> AppendUniqueEdit(target, looked, r.span)

FileopsDesired(r) ==
  CASE r.kind \in {"write", "create"} -> <<r.span>>
    [] r.kind = "edit"   -> ReplaceUniqueSpan(target, <<r.span>>, <<r.new>>)
    [] r.kind = "delete" -> DeleteExactBlock(target, <<r.span>>)
    [] r.kind = "append" -> AppendUnique(target, r.span)

Desired(c) ==
  IF InService(c) THEN ServiceDesired(req[c], job[c].looked) ELSE FileopsDesired(req[c])

MatchExpected(r) == r.expected \in {NoHash, target}

\* A Service takes a hash for a missing file as a conflict; WriteFile of fileops
\* does not look at it.
ServiceAdmits(r) ==
  IF target = Absent THEN r.kind \in {"create", "write"} /\ r.expected = NoHash
  ELSE r.kind # "create" /\ MatchExpected(r)

FileopsAdmits(r) ==
  IF target = Absent THEN r.kind \in {"create", "write"}
  ELSE r.kind # "create" /\ MatchExpected(r)

Admits(c) == IF InService(c) THEN ServiceAdmits(req[c]) ELSE FileopsAdmits(req[c])

-----------------------------------------------------------------------------
(* Steps of a call. *)

Goto(c, step) == pc' = [pc EXCEPT ![c] = step]

\* Calls end, with their mutexes free.
Forget(C) ==
  /\ pc' = [c \in Callers |-> IF c \in C THEN "idle" ELSE pc[c]]
  /\ req' = [c \in Callers |-> IF c \in C THEN NoRequest ELSE req[c]]
  /\ job' = [c \in Callers |-> IF c \in C THEN NoJob ELSE job[c]]
  /\ base' = [c \in Callers |-> IF c \in C THEN 0 ELSE base[c]]
  /\ writeMu' = [s \in Services |-> IF writeMu[s] \in C THEN NoService ELSE writeMu[s]]

HasTemp(c) == job[c].temp # "none"

\* Success: keepTemp is false, and a temporary file that is there stays.
Return(c) ==
  /\ Forget({c})
  /\ litter' = (litter \/ HasTemp(c))

\* An error: the temporary file is removed, unless that fails as well.
ReturnError(c) ==
  /\ Forget({c})
  /\ litter' \in {litter, litter \/ HasTemp(c)}

\* A caller makes a request with the hash of what it has just seen, or without
\* one: only Write and a Service's replacement do without.
Begin(c, kind, s, n) ==
  /\ pc[c] = "idle"
  /\ calls < MaxCalls
  /\ calls' = calls + 1
  /\ kind # "edit" => n = s
  /\ \E h \in {NoHash, target} \ {Absent} :
       /\ h = NoHash => kind \in {"write", "create"} \cup (IF InService(c) THEN {"edit"} ELSE {})
       /\ h # NoHash => kind # "create"
       /\ req' = [req EXCEPT ![c] = [kind |-> kind, span |-> s, new |-> n, expected |-> h]]
  /\ Goto(c, IF ~InService(c) THEN "read" ELSE IF kind = "append" THEN "look" ELSE "lock")
  /\ UNCHANGED <<service, disk, litter, writeMu, job, crashes, ghost>>

\* A Service reads no file and writes no text beyond its cap.
Fits(c, T) == IF InService(c) /\ T # Absent THEN Len(T) <= WholeFile ELSE TRUE

\* Faulty form: a file that is not there is taken for a text.
LookAnyway(c) ==
  /\ pc[c] = "look"
  /\ job' = [job EXCEPT ![c].looked = target]
  /\ Goto(c, "lock")
  /\ UNCHANGED <<service, disk, litter, writeMu, req, counters, ghost>>

\* appendUniqueRequest reads the file, outside writeMu.
Look(c) ==
  /\ pc[c] = "look"
  /\ target # Absent /\ Fits(c, target)
  /\ job' = [job EXCEPT ![c].looked = target]
  /\ Goto(c, "lock")
  /\ UNCHANGED <<service, disk, litter, writeMu, req, counters, ghost>>

\* Faulty form: Write and Edit do not take the mutex.
PassLock(c) ==
  /\ pc[c] = "lock"
  /\ Goto(c, "read")
  /\ UNCHANGED <<service, disk, litter, writeMu, req, job, counters, ghost>>

Lock(c) ==
  /\ pc[c] = "lock"
  /\ writeMu[service[c]] = NoService
  /\ writeMu' = [writeMu EXCEPT ![service[c]] = c]
  /\ Goto(c, "read")
  /\ UNCHANGED <<service, disk, litter, req, job, counters, ghost>>

Changes(c) ==
  /\ Admits(c)
  /\ Desired(c) \notin {Refused, target}
  /\ Fits(c, target) /\ Fits(c, Desired(c))

\* The file is read, and the request decided on what it holds.
Read(c) ==
  /\ pc[c] = "read"
  /\ Changes(c)
  /\ job' = [job EXCEPT ![c].text = Desired(c)]
  /\ base' = [base EXCEPT ![c] = shown]
  /\ raced' = raced \ {c}
  /\ Goto(c, IF req[c].kind = "create" /\ ~InService(c) THEN "open" ELSE "temp")
  /\ UNCHANGED <<service, disk, litter, writeMu, req, counters, exclusive, acked>>

\* Unchanged, a conflict or a refusal.
ReadReturns(c) ==
  /\ pc[c] = "read"
  /\ ~Changes(c)
  /\ Return(c)
  /\ UNCHANGED <<service, disk, counters, raced, exclusive, acked>>

\* An error, or the context is done, before anything is installed.
Fails(c) ==
  /\ pc[c] \in {"look", "read", "temp", "fill", "install", "open"}
  /\ ReturnError(c)
  /\ UNCHANGED <<service, disk, counters, raced, exclusive, acked>>

MakeTemp(c) ==
  /\ pc[c] = "temp"
  /\ job' = [job EXCEPT ![c].temp = "partial"]
  /\ Goto(c, "fill")
  /\ UNCHANGED <<service, disk, litter, writeMu, req, counters, ghost>>

\* Faulty form: the data is not synced before it is installed.
FillUnsynced(c) ==
  /\ pc[c] = "fill"
  /\ Goto(c, "install")
  /\ UNCHANGED <<service, disk, litter, writeMu, req, job, counters, ghost>>

\* Write, chmod, sync, close.
FillTemp(c) ==
  /\ pc[c] = "fill"
  /\ job' = [job EXCEPT ![c].temp = "synced"]
  /\ Goto(c, "install")
  /\ UNCHANGED <<service, disk, litter, writeMu, req, counters, ghost>>

\* The name stands for a new text. Whoever c's mutex does not hold up and has made
\* its comparison is now behind.
Put(c, T, synced) ==
  /\ target' = T
  /\ sound' = synced
  /\ made' = made + 1
  /\ shown' = made + 1
  /\ raced' = raced \cup {d \in Callers \ {c} : pc[d] \in Writing \cup {"open"} /\ ~Mates(c, d)}
  /\ UNCHANGED <<durable, kept>>

\* WriteFileAtomic: rename over the target, and success.
Rename(c) ==
  /\ pc[c] = "install"
  /\ ~InService(c)
  /\ Put(c, job[c].text, job[c].temp = "synced")
  /\ Forget({c})
  /\ UNCHANGED <<service, litter, counters, exclusive, acked>>

\* WriteFileAtomicOpts: rename, with the directory still to be synced.
RenameOpts(c) ==
  /\ pc[c] = "install"
  /\ InService(c)
  /\ req[c].kind # "create"
  /\ Put(c, job[c].text, job[c].temp = "synced")
  /\ job' = [job EXCEPT ![c].temp = "none", ![c].mine = made + 1]
  /\ Goto(c, "sync")
  /\ UNCHANGED <<service, litter, writeMu, req, counters, base, exclusive, acked>>

\* WriteFileAtomicOpts with CreateOnly: link. ErrExist is among Fails.
Link(c) ==
  /\ pc[c] = "install"
  /\ req[c].kind = "create"
  /\ target = Absent
  /\ Put(c, job[c].text, job[c].temp = "synced")
  /\ job' = [job EXCEPT ![c].mine = made + 1]
  /\ Goto(c, "unlink")
  /\ UNCHANGED <<service, litter, writeMu, req, counters, base, exclusive, acked>>

\* Faulty form: CreateOnly keeps the temporary name beside the new one.
UnlinkNothing(c) ==
  /\ pc[c] = "unlink"
  /\ Goto(c, "sync")
  /\ UNCHANGED <<service, disk, litter, writeMu, req, job, counters, ghost>>

Unlink(c) ==
  /\ pc[c] = "unlink"
  /\ job' = [job EXCEPT ![c].temp = "none"]
  /\ Goto(c, "sync")
  /\ UNCHANGED <<service, disk, litter, writeMu, req, counters, ghost>>

Acknowledge(c) == acked' = IF job[c].mine > acked THEN job[c].mine ELSE acked

\* Faulty form: success without a sync of the directory.
SkipSync(c) ==
  /\ pc[c] = "sync"
  /\ Acknowledge(c)
  /\ Return(c)
  /\ UNCHANGED <<service, disk, counters, raced, exclusive>>

\* syncDir, and success.
SyncDir(c) ==
  /\ pc[c] = "sync"
  /\ durable' = IF sound THEN target ELSE Torn
  /\ kept' = shown
  /\ Acknowledge(c)
  /\ Return(c)
  /\ UNCHANGED <<service, target, sound, made, shown, counters, raced, exclusive>>

\* An error after the target has changed: of the Remove after Link, of syncDir, of
\* the write of CreateExclusive.
FailsLate(c) ==
  /\ pc[c] \in {"unlink", "sync", "pour"}
  /\ ReturnError(c)
  /\ UNCHANGED <<service, disk, counters, raced, exclusive, acked>>

\* CreateExclusive: the name is taken (ErrExist is among Fails), then the file is
\* written in place, unsynced; if it still has the name, everybody sees that.
OpenExclusive(c) ==
  /\ pc[c] = "open"
  /\ target = Absent
  /\ Put(c, Torn, FALSE)
  /\ job' = [job EXCEPT ![c].mine = made + 1]
  /\ exclusive' = TRUE
  /\ Goto(c, "pour")
  /\ UNCHANGED <<service, litter, writeMu, req, counters, base, acked>>

Pour(c) ==
  /\ pc[c] = "pour"
  /\ IF shown = job[c].mine THEN Put(c, job[c].text, FALSE) ELSE UNCHANGED <<disk, raced>>
  /\ Return(c)
  /\ UNCHANGED <<service, counters, exclusive, acked>>

\* RestoreFileStateInRepo, or anybody else, removes the file.
Remove ==
  /\ calls < MaxCalls
  /\ calls' = calls + 1
  /\ target # Absent
  /\ target' = Absent
  /\ sound' = TRUE
  /\ made' = made + 1
  /\ shown' = made + 1
  /\ raced' = raced \cup {c \in Callers : pc[c] \in Writing \cup {"open"}}
  /\ UNCHANGED <<service, durable, kept, litter, writeMu, pc, req, job, crashes, base, exclusive, acked>>

-----------------------------------------------------------------------------
(* The kernel. *)

\* The directory reaches the disk by itself, before the file's data or after.
Writeback ==
  /\ kept # shown
  /\ durable' \in {target} \cup (IF sound THEN {} ELSE {Torn})
  /\ kept' = shown
  /\ UNCHANGED <<service, target, sound, litter, made, shown, writeMu, pc, req, job, counters, ghost>>

\* A process dies: the callers of one Service, or one caller of fileops. Its
\* temporary files stay, and nobody looks at them.
Processes ==
  {{c \in Callers : service[c] = s} : s \in Services} \cup
  {{c} : c \in {c \in Callers : ~InService(c)}}

Crash(C) ==
  /\ crashes < MaxCrashes
  /\ crashes' = crashes + 1
  /\ Forget(C)
  /\ litter' = (litter \/ \E c \in C : HasTemp(c))
  /\ UNCHANGED <<service, disk, calls, raced, exclusive, acked>>

PowerLoss ==
  /\ crashes < MaxCrashes
  /\ crashes' = crashes + 1
  /\ target' = durable
  /\ shown' = kept
  /\ sound' = TRUE
  /\ Forget(Callers)
  /\ litter' \in BOOLEAN
  /\ UNCHANGED <<service, durable, made, kept, calls, raced, exclusive, acked>>

-----------------------------------------------------------------------------
CallStep(c) ==
  \/ Look(c)
  \/ Lock(c)
  \/ Read(c)
  \/ ReadReturns(c)
  \/ MakeTemp(c)
  \/ FillTemp(c)
  \/ Rename(c)
  \/ RenameOpts(c)
  \/ Link(c)
  \/ Unlink(c)
  \/ SyncDir(c)
  \/ OpenExclusive(c)
  \/ Pour(c)
  \/ Fails(c)
  \/ FailsLate(c)

Next ==
  \/ \E c \in Callers :
       \/ CallStep(c)
       \/ \E kind \in Kinds, s, n \in Spans : Begin(c, kind, s, n)
  \/ Remove
  \/ \E C \in Processes : Crash(C)
  \/ Writeback
  \/ PowerLoss

Spec == Init /\ [][Next]_vars

-----------------------------------------------------------------------------
(* Properties. *)

Installs(c) == pc[c] \in {"install", "open"} /\ pc'[c] # pc[c] /\ made' # made

\* "mutating operations are serialized so their optimistic guards observe a
\* consistent in-process snapshot": what a call replaces is what it compared with
\* the expected hash, unless somebody outside its Service has installed since;
\* and a create replaces nothing, whoever else is about.
GuardHolds ==
  [][\A c \in Callers : Installs(c) =>
       /\ c \in raced \/ base[c] = shown
       /\ req[c].kind = "create" => target = Absent]_vars

\* One occurrence, provided that append_unique looked at the text its Edit then found.
AppendOnce(c) ==
  pc[c] \in Writing /\ req[c].kind = "append" /\ (InService(c) => job[c].looked = req[c].expected)
    => Once(job[c].text, <<req[c].span>>)

\* append_unique and AppendUnique leave one occurrence of what they append, whoever
\* else edits the file meanwhile.
AppendsOnce == \A c \in Callers : AppendOnce(c)

\* "a crash mid-write cannot truncate the file": nothing but CreateExclusive, which
\* writes in place, ever shows or leaves a file that is not whole.
NeverTorn ==
  ~exclusive => \A T \in {target, durable} \ {Absent} : Found(T, Torn) = {}

\* What a Service has acknowledged is not taken back by a power loss.
AckedIsDurable == acked <= kept

\* A call that succeeds leaves no temporary file, by rename, by link and unlink or
\* in place.
SuccessIsTidy ==
  [][\A c \in Callers : Rename(c) \/ SyncDir(c) \/ Pour(c) => litter' = litter]_vars

\* A call holds its Service's mutex exactly while it works on the file, and has a
\* temporary file only between its creation and its rename or removal.
OwnsItsParts ==
  \A c \in Callers :
    /\ HasTemp(c) => pc[c] \in {"fill", "install", "unlink"}
    /\ InService(c) => (writeMu[service[c]] = c <=> pc[c] \in Holding)

\* What makes GuardHolds inductive: from its comparison to its install a call is
\* up to date or overtaken, and each interface goes through its own steps.
Compared == {"temp", "fill", "install", "open"}
UpToDate(c) ==
  /\ pc[c] \in Compared => c \in raced \/ base[c] = shown
  /\ pc[c] # "idle" => req[c] \in Request
  /\ pc[c] \in {"open", "pour"} => ~InService(c)
  /\ pc[c] \in {"look", "lock", "unlink", "sync"} => InService(c)
  /\ pc[c] \in {"temp", "fill", "install"} /\ ~InService(c) => req[c].kind # "create"

\* What makes AckedIsDurable inductive: the disk is never ahead of the name, and a
\* power loss takes a version back only together with the calls that made it.
Versions ==
  /\ acked <= kept /\ kept <= shown /\ shown <= made
  /\ \A c \in Callers : job[c].mine <= shown

\* What makes NeverTorn inductive: until a CreateExclusive, nothing that is read,
\* held or installed has Debris in it, and only synced files are installed.
CarriesIntact(c) ==
  /\ job[c].looked \in Seq(Spans) /\ job[c].text \in Seq(Spans)
  /\ pc[c] = "install" => job[c].temp = "synced"
  /\ pc[c] # "pour"

Intact ==
  ~exclusive =>
    /\ sound
    /\ target \in Seq(Spans) \cup {Absent} /\ durable \in Seq(Spans) \cup {Absent}
    /\ \A c \in Callers : CarriesIntact(c)

\* What makes AppendsOnce inductive: an append goes with a hash.
Appending(c) ==
  /\ AppendOnce(c)
  /\ pc[c] # "idle" /\ req[c].kind = "append" => req[c].expected # NoHash

\* The inductive invariant behind all of these.
IndInv ==
  /\ OwnsItsParts
  /\ Versions
  /\ \A c \in Callers : UpToDate(c)
  /\ Intact
  /\ \A c \in Callers : Appending(c)
================================================================================
