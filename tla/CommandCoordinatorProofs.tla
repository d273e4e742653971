------------------------ MODULE CommandCoordinatorProofs ------------------------
(***************************************************************************)
(* Proofs about CommandCoordinator for any number of runners, repositories *)
(* and replacements. The runners keep their invariant although the         *)
(* registry creates runners and Resolve fills caches; the registry never   *)
(* loses a runner, so a snapshot holds the owner of every command; and a   *)
(* pass that goes by the owner finds it without what the pass asks for,    *)
(* which is then settled.                                                  *)
(***************************************************************************)
EXTENDS CommandCoordinator, CommandRunnerProofs, FiniteSetTheorems, SequenceTheorems

USE RunnerAssumption, CoordinatorAssumption

-----------------------------------------------------------------------------
(* Sequences of runners. *)

Holds(s, x) == \E i \in 1..Len(s) : s[i] = x

\* A concatenation holds what its parts hold.
LEMMA ConcatHolds ==
  ASSUME NEW S, NEW a \in Seq(S), NEW b \in Seq(S)
  PROVE  /\ a \o b \in Seq(S) /\ Len(a \o b) = Len(a) + Len(b)
         /\ \A x : Holds(a, x) \/ Holds(b, x) => Holds(a \o b, x)
<1>1. a \o b \in Seq(S) /\ Len(a \o b) = Len(a) + Len(b)
  OBVIOUS
<1>2. Len(a) \in Nat /\ Len(b) \in Nat
  OBVIOUS
<1>3. ASSUME NEW i \in 1..Len(a)
      PROVE  i \in 1..Len(a \o b) /\ (a \o b)[i] = a[i]
  BY <1>1, <1>2
<1>4. ASSUME NEW i \in 1..Len(b)
      PROVE  Len(a) + i \in 1..Len(a \o b) /\ (a \o b)[Len(a) + i] = b[i]
  BY <1>1, <1>2
<1>5. QED
  BY <1>1, <1>3, <1>4 DEF Holds

\* A sequence of runners stays one when runners are made.
LEMMA SeqGrows ==
  ASSUME NEW S, NEW T, S \subseteq T, NEW s \in Seq(S)
  PROVE  s \in Seq(T)
<1>1. Len(s) \in Nat /\ s \in [1..Len(s) -> S]
  OBVIOUS
<1>2. s \in [1..Len(s) -> T]
  BY <1>1
<1>3. QED
  BY <1>1, <1>2

\* SetToSeqs lists every element.
LEMMA SetToSeqsHolds ==
  ASSUME NEW S, IsFiniteSet(S), NEW f \in SetToSeqs(S)
  PROVE  /\ Cardinality(S) \in Nat /\ f \in Seq(S) /\ Len(f) = Cardinality(S)
         /\ f \in [1..Cardinality(S) -> S]
         /\ \A x \in S : Holds(f, x)
<1> DEFINE n == Cardinality(S)
<1>1. n \in Nat
  BY FS_CardinalityType
<1>2. f \in [1..n -> S] /\ \A i, j \in 1..n : i # j => f[i] # f[j]
  BY DEF SetToSeqs
<1>3. f \in Injection(1..n, S)
  BY <1>2 DEF Injection, IsInjective
<1>4. Cardinality(1..n) = n
  BY <1>1, FS_Interval
<1>5. f \in Surjection(1..n, S)
  BY <1>3, <1>4, FS_Injection
<1>6. \A x \in S : \E i \in 1..n : f[i] = x
  BY <1>5 DEF Surjection
<1>7. f \in Seq(S) /\ Len(f) = n
  BY <1>1, <1>2
<1>8. QED
  BY <1>1, <1>2, <1>6, <1>7 DEF Holds

-----------------------------------------------------------------------------
(* The runners under the coordinator. *)

\* knowsCommand on one runner keeps the runners' invariant.
LEMMA LookKeeps ==
  ASSUME RunnerInd, NEW r \in Runners, NEW id \in Ids, Remember(r, id),
         UNCHANGED <<life, root, file, row, dropped, swept, command, call, ghost>>
  PROVE  RunnerInd' /\ Settled
<1>1. Quiet /\ UNCHANGED <<ctx, call, ghost>>
  BY DEF Quiet, command
<1>2. Looks
  BY RememberLooks DEF RunnerInd
<1>3. QED
  BY <1>1, <1>2, LooksKeep

\* A step of the runners themselves keeps it, and so does one that leaves them alone.
LEMMA RunnersKeep ==
  ASSUME RunnerInd, [RunnerNext]_runnerVars
  PROVE  RunnerInd' /\ Settled
BY RunnerIndStep

-----------------------------------------------------------------------------
(* The registry and its snapshot. *)

\* The snapshot is a sequence of runners, base first, that holds all there are.
LEMMA SnapshotHolds ==
  ASSUME RegistryTypeOK, RegistryInv, NEW paths \in SortedPaths
  PROVE  /\ Snapshot(paths) \in Seq(made) /\ 1 \in 1..Len(Snapshot(paths))
         /\ \A r \in made : Holds(Snapshot(paths), r)
<1> DEFINE n == Cardinality(Present)
           mid == [i \in 1..n |-> current[paths[i]]]
           front == <<base>> \o mid
<1>1. IsFiniteSet(Present)
  BY FS_Subset DEF Present
<1>2. paths \in SetToSeqs(Present)
  BY DEF SortedPaths
<1>3. n \in Nat /\ Len(paths) = n /\ paths \in [1..n -> Present] /\ \A k \in Present : Holds(paths, k)
  BY <1>1, <1>2, SetToSeqsHolds
<1>4. \A i \in 1..n : current[paths[i]] \in made
  BY <1>3 DEF RegistryTypeOK, Present
<1>5. mid \in Seq(made) /\ Len(mid) = n
  BY <1>3, <1>4
<1>6. <<base>> \in Seq(made) /\ Len(<<base>>) = 1 /\ <<base>>[1] = base
  BY DEF RegistryTypeOK
<1>7. ASSUME NEW k \in Repos, current[k] # NoOne PROVE Holds(mid, current[k])
  <2>1. PICK i \in 1..n : paths[i] = k
    BY <1>3, <1>7 DEF Present, Holds
  <2>2. mid[i] = current[k]
    BY <2>1
  <2>3. QED
    BY <1>5, <2>2 DEF Holds
<1> HIDE DEF mid
<1>8. Holds(<<base>>, base)
  BY <1>6 DEF Holds
<1>9. /\ front \in Seq(made) /\ Len(front) = 1 + Len(mid) /\ Holds(front, base)
      /\ \A x : Holds(mid, x) => Holds(front, x)
  BY <1>5, <1>6, <1>8, ConcatHolds
<1> HIDE DEF front
<1>10. retired \in Seq(made)
  BY DEF RegistryTypeOK
<1>11. /\ front \o retired \in Seq(made) /\ Len(front \o retired) = Len(front) + Len(retired)
       /\ \A x : Holds(front, x) \/ Holds(retired, x) => Holds(front \o retired, x)
  BY <1>9, <1>10, ConcatHolds
<1>12. Snapshot(paths) = front \o retired
  BY DEF Snapshot, front, mid
<1>13. 1 \in 1..Len(front \o retired)
  <2>1. Len(retired) \in Nat /\ Len(mid) \in Nat
    BY <1>5, <1>10
  <2>2. QED
    BY <1>9, <1>11, <2>1
<1>14. ASSUME NEW r \in made PROVE Holds(front \o retired, r)
  <2>1. r # NoOne
    BY DEF RegistryTypeOK
  <2>2. r = base \/ (\E k \in Repos : current[k] = r) \/ Holds(retired, r)
    BY DEF RegistryInv, Holds
  <2>3. QED
    BY <1>7, <1>9, <1>11, <2>1, <2>2
<1>15. QED
  BY <1>11, <1>12, <1>13, <1>14

\* A Resolve goes on over its snapshot while runners are made.
LEMMA SeekTypeGrows ==
  ASSUME RegistryTypeOK, made \subseteq made', UNCHANGED seek
  PROVE  /\ seek' \in [Clients -> Seek']
         /\ \A c \in Clients : seek'[c].at # "idle" => seek'[c].i \in 1..Len(seek'[c].list)
<1>1. ASSUME NEW c \in Clients PROVE seek[c] \in Seek'
  <2>1. seek[c] \in Seek /\ seek[c].list \in Seq(made)
    BY DEF RegistryTypeOK, Seek
  <2>2. seek[c].list \in Seq(made')
    BY <2>1, SeqGrows
  <2>3. QED
    BY <2>1, <2>2 DEF Seek
<1>2. QED
  BY <1>1 DEF RegistryTypeOK

\* ForRepo keeps the replaced runner.
LEMMA ForRepoKeeps ==
  ASSUME RegistryTypeOK, RegistryInv, NEW k \in Repos, NEW r \in Runners, ForRepo(k, r)
  PROVE  RegistryTypeOK' /\ RegistryInv'
<1>1. /\ made' = made \cup {r} /\ r \notin made /\ base' = base /\ seek' = seek
      /\ current' = [current EXCEPT ![k] = r] /\ owner' = owner
      /\ retired' = IF current[k] = NoOne THEN retired ELSE Append(retired, current[k])
  BY DEF ForRepo, Register, runnerVars, command
<1>2. made' \subseteq Runners /\ base' \in made' /\ current' \in [Repos -> made' \cup {NoOne}]
  BY <1>1 DEF RegistryTypeOK
<1>3. /\ retired' \in Seq(made)
      /\ \A x : Holds(retired, x) => Holds(retired', x)
      /\ current[k] # NoOne => Holds(retired', current[k])
  <2>1. CASE current[k] = NoOne
    BY <1>1, <2>1 DEF RegistryTypeOK
  <2>2. CASE current[k] # NoOne
    <3>1. current[k] \in made /\ retired \in Seq(made) /\ retired' = Append(retired, current[k])
      BY <1>1, <2>2 DEF RegistryTypeOK
    <3>2. /\ retired' \in Seq(made) /\ Len(retired') = Len(retired) + 1 /\ Len(retired) \in Nat
          /\ retired'[Len(retired) + 1] = current[k]
          /\ \A i \in 1..Len(retired) : retired'[i] = retired[i]
      BY <3>1
    <3>3. Len(retired') \in 1..Len(retired') /\ \A i \in 1..Len(retired) : i \in 1..Len(retired')
      BY <3>2
    <3>4. QED
      BY <3>2, <3>3 DEF Holds
  <2>3. QED
    BY <2>1, <2>2
<1>4. retired' \in Seq(made')
  BY <1>1, <1>3, SeqGrows
<1>5. RegistryTypeOK'
  BY <1>1, <1>2, <1>4, SeekTypeGrows DEF RegistryTypeOK
<1>6. ASSUME NEW s \in made'
      PROVE  s = base' \/ (\E l \in Repos : current'[l] = s) \/ Holds(retired', s)
  <2>1. CASE s = r
    BY <1>1, <2>1 DEF RegistryTypeOK
  <2>2. CASE s \in made
    <3>1. s # NoOne
      BY <2>2 DEF RegistryTypeOK
    <3>2. s = base \/ (\E l \in Repos : current[l] = s) \/ Holds(retired, s)
      BY <2>2 DEF RegistryInv, Holds
    <3>3. CASE \E l \in Repos : current[l] = s
      BY <1>1, <1>3, <3>1, <3>3 DEF RegistryTypeOK
    <3>4. QED
      BY <1>1, <1>3, <3>2, <3>3
  <2>3. QED
    BY <1>1, <2>1, <2>2
<1>7. \A id \in Ids : owner'[id] \in made' \cup {NoOne}
  BY <1>1 DEF RegistryInv
<1>8. \A s \in made' : Ready(s)'
  BY <1>1 DEF ForRepo, Register, runnerVars, log, RegistryInv, Ready
<1>9. QED
  BY <1>5, <1>6, <1>7, <1>8 DEF RegistryInv, Holds

\* Reset keeps the base and every current runner.
LEMMA ResetKeeps ==
  ASSUME RegistryTypeOK, RegistryInv, NEW r \in Runners, Reset(r)
  PROVE  RegistryTypeOK' /\ RegistryInv'
<1>1. /\ made' = made \cup {r} /\ r \notin made /\ base' = r /\ seek' = seek
      /\ current' = [k \in Repos |-> NoOne] /\ owner' = owner
  BY DEF Reset, Register, runnerVars, command
<1>2. PICK s \in SetToSeqs(CurrentRunners) : retired' = <<base>> \o s \o retired
  BY DEF Reset
<1>3. CurrentRunners \subseteq made
  BY DEF CurrentRunners, RegistryTypeOK
<1>4. IsFiniteSet(CurrentRunners)
  <2> DEFINE f == [k \in Present |-> current[k]]
  <2>1. IsFiniteSet(Present)
    BY FS_Subset DEF Present
  <2>2. f \in Surjection(Present, CurrentRunners)
    BY DEF Surjection, Present, CurrentRunners
  <2>3. QED
    BY <2>1, <2>2, FS_Surjection
<1>5. s \in Seq(CurrentRunners) /\ \A x \in CurrentRunners : Holds(s, x)
  BY <1>4, SetToSeqsHolds
<1>6. s \in Seq(made) /\ retired \in Seq(made) /\ <<base>> \in Seq(made)
      /\ Len(<<base>>) = 1 /\ <<base>>[1] = base
  BY <1>3, <1>5, SeqGrows DEF RegistryTypeOK
<1> DEFINE front == <<base>> \o s
<1>7. Holds(<<base>>, base)
  BY <1>6 DEF Holds
<1>8. front \in Seq(made) /\ Holds(front, base) /\ \A x : Holds(s, x) => Holds(front, x)
  BY <1>6, <1>7, ConcatHolds
<1>9. retired' = front \o retired
  BY <1>2
<1> HIDE DEF front
<1>10. retired' \in Seq(made) /\ \A x : Holds(front, x) \/ Holds(retired, x) => Holds(retired', x)
  BY <1>6, <1>8, <1>9, ConcatHolds
<1>11. retired' \in Seq(made')
  BY <1>1, <1>10, SeqGrows
<1>12. RegistryTypeOK'
  BY <1>1, <1>11, SeekTypeGrows DEF RegistryTypeOK
<1>13. ASSUME NEW q \in made' PROVE q = base' \/ Holds(retired', q)
  <2>1. CASE q \in made
    <3>1. q # NoOne
      BY <2>1 DEF RegistryTypeOK
    <3>2. q = base \/ (\E l \in Repos : current[l] = q) \/ Holds(retired, q)
      BY <2>1 DEF RegistryInv, Holds
    <3>3. (\E l \in Repos : current[l] = q) => q \in CurrentRunners
      BY <3>1 DEF CurrentRunners
    <3>4. QED
      BY <1>5, <1>8, <1>10, <3>2, <3>3
  <2>2. QED
    BY <1>1, <2>1
<1>14. \A id \in Ids : owner'[id] \in made' \cup {NoOne}
  BY <1>1 DEF RegistryInv
<1>15. \A q \in made' : Ready(q)'
  BY <1>1 DEF Reset, Register, runnerVars, log, RegistryInv, Ready
<1>16. QED
  BY <1>12, <1>13, <1>14, <1>15 DEF RegistryInv, Holds

-----------------------------------------------------------------------------
(* Resolve. *)

\* What a runner of the snapshot is.
LEMMA SeekRunner ==
  ASSUME RegistryTypeOK, NEW c \in Clients, seek[c].at # "idle"
  PROVE  Found(c) \in made /\ Found(c) \in Runners /\ seek[c].i \in Nat
<1>1. seek[c].list \in Seq(made) /\ seek[c].i \in 1..Len(seek[c].list)
  BY DEF RegistryTypeOK, Seek
<1>2. QED
  BY <1>1 DEF RegistryTypeOK, Found

\* What a Resolve goes by: runners and registry in order.
Ordered == RunnerInd /\ RegistryTypeOK /\ RegistryInv

\* A Resolve that nobody moves still knows what it knew.
LEMMA SeekKept ==
  ASSUME Ordered, Settled, NEW c \in Clients, SeekKnows(c), seek'[c] = seek[c]
  PROVE  SeekKnows(c)'
<1> DEFINE q == seek[c]
<1>1. CASE q.at = "idle"
  BY <1>1 DEF SeekKnows
<1>2. CASE q.at # "idle"
  <2>1. /\ q.id \in Ids /\ owner[q.id] # NoOne
        /\ q.told \in Final => answer[q.id] = q.told
        /\ q.tracked => work[q.id] \notin {"unborn", "recorded"}
    BY <1>2 DEF SeekKnows
  <2>2. /\ owner'[q.id] = owner[q.id] /\ (q.id \notin swept' => q.id \notin swept)
        /\ q.told \in Final => answer'[q.id] = q.told
        /\ q.tracked => /\ work'[q.id] \notin {"unborn", "recorded"}
                        /\ q.id \in tracked' => q.id \in tracked
    BY <2>1 DEF Settled, Final
  <2>3. Found(c)' = Found(c)
    BY DEF Found
  <2>4. Found(c) \in Runners /\ Ready(Found(c)) /\ TypeOK /\ LifeInv
    BY <1>2, SeekRunner DEF Ordered, RegistryInv, RunnerInd
  <2>5. SharesLog(Found(c), owner[q.id]) => SharesLog(Found(c), owner[q.id])'
    <3>1. PICK f \in Runners, id \in Ids : f = Found(c) /\ id = q.id
      BY <2>1, <2>4
    <3>2. SharesLog(f, owner[id]) => SharesLog(f, owner[id])' /\ owner'[id] = owner[id]
      BY <2>1, <2>4, <3>1, SharesKept
    <3>3. f = Found(c)' /\ id = seek'[c].id
      BY <2>3, <3>1
    <3>4. QED
      BY <3>1, <3>2, <3>3 DEF SharesLog
  <2>6. QED
    BY <1>2, <2>1, <2>2, <2>3, <2>5 DEF SeekKnows
<1>3. QED
  BY <1>1, <1>2

\* The same for all the clients but one.
LEMMA OthersSeek ==
  ASSUME Ordered, Settled, SeekInv, NEW c \in Clients, SeekKnows(c)',
         \A d \in Clients : d # c => seek'[d] = seek[d]
  PROVE  SeekInv'
BY SeekKept DEF SeekInv

\* A pass stops at a runner that has the command, or goes on to the next, or ends.
LEMMA PassFacts ==
  ASSUME RegistryTypeOK, NEW c \in Clients, NEW has \in BOOLEAN, NEW next \in {"know", "found"},
         Pass(c, has, next), seek[c].at # "idle", made' = made
  PROVE  /\ seek' \in [Clients -> Seek']
         /\ \A d \in Clients : d # c => seek'[d] = seek[d]
         /\ seek'[c].id = seek[c].id /\ seek'[c].list = seek[c].list
         /\ seek'[c].tracked = seek[c].tracked /\ seek'[c].told = seek[c].told
         /\ seek'[c].i \in 1..Len(seek[c].list)
         /\ \/ has /\ seek'[c].at = "found" /\ seek'[c].i = seek[c].i
            \/ ~has /\ seek'[c].at = seek[c].at /\ seek'[c].i = seek[c].i + 1
            \/ ~has /\ seek[c].i = Len(seek[c].list) /\ seek'[c].at = next /\ seek'[c].i = 1
<1> DEFINE q == seek[c]
<1>1. q \in Seek /\ q.i \in 1..Len(q.list) /\ q.list \in Seq(made) /\ Len(q.list) \in Nat
  BY DEF RegistryTypeOK, Seek
<1>2. Seek' = Seek
  BY DEF Seek
<1>3. CASE has
  <2>1. seek' = [seek EXCEPT ![c] = [q EXCEPT !.at = "found"]]
    BY <1>3 DEF Pass
  <2>2. [q EXCEPT !.at = "found"] \in Seek
    BY <1>1 DEF Seek
  <2>3. seek'[c] = [q EXCEPT !.at = "found"] /\ \A d \in Clients : d # c => seek'[d] = seek[d]
    BY <2>1 DEF RegistryTypeOK
  <2>4. seek' \in [Clients -> Seek]
    BY <2>1, <2>2 DEF RegistryTypeOK
  <2>5. QED
    BY <1>1, <1>2, <1>3, <2>3, <2>4 DEF Seek
<1>4. CASE ~has /\ q.i < Len(q.list)
  <2>1. seek' = [seek EXCEPT ![c] = [q EXCEPT !.i = q.i + 1]]
    BY <1>4 DEF Pass
  <2>2. [q EXCEPT !.i = q.i + 1] \in Seek /\ q.i + 1 \in 1..Len(q.list)
    BY <1>1, <1>4 DEF Seek
  <2>3. seek'[c] = [q EXCEPT !.i = q.i + 1] /\ \A d \in Clients : d # c => seek'[d] = seek[d]
    BY <2>1 DEF RegistryTypeOK
  <2>4. seek' \in [Clients -> Seek]
    BY <2>1, <2>2 DEF RegistryTypeOK
  <2>5. QED
    BY <1>1, <1>2, <1>4, <2>2, <2>3, <2>4 DEF Seek
<1>5. CASE ~has /\ ~(q.i < Len(q.list))
  <2>1. seek' = [seek EXCEPT ![c] = [q EXCEPT !.at = next, !.i = 1]]
    BY <1>5 DEF Pass
  <2>2. [q EXCEPT !.at = next, !.i = 1] \in Seek /\ 1 \in 1..Len(q.list) /\ q.i = Len(q.list)
    <3>1. q.i \in Nat /\ 1 <= q.i /\ q.i <= Len(q.list)
      BY <1>1
    <3>2. 1 \in 1..Len(q.list) /\ q.i = Len(q.list)
      BY <1>1, <1>5, <3>1
    <3>3. [q EXCEPT !.at = next, !.i = 1] \in Seek
      BY <1>1 DEF Seek
    <3>4. QED
      BY <3>2, <3>3
  <2>3. /\ seek'[c] = [q EXCEPT !.at = next, !.i = 1]
        /\ \A d \in Clients : d # c => seek'[d] = seek[d]
    BY <2>1 DEF RegistryTypeOK
  <2>4. seek' \in [Clients -> Seek]
    BY <2>1, <2>2 DEF RegistryTypeOK
  <2>5. QED
    BY <1>1, <1>2, <1>5, <2>2, <2>3, <2>4 DEF Seek
<1>6. QED
  BY <1>3, <1>4, <1>5

\* The registry's invariants do not depend on what the runners do, as long as only
\* runners that exist start commands.
LEMMA RegistryKept ==
  ASSUME RegistryTypeOK, RegistryInv, Settled, UNCHANGED registry,
         \A id \in Ids : owner'[id] \in made \cup {NoOne}
  PROVE  RegistryInv'
<1>1. \A r \in made : Ready(r)'
  BY DEF RegistryInv, RegistryTypeOK, Settled
<1>2. QED
  BY <1>1 DEF RegistryInv, registry

\* Resolve starts with a snapshot that holds the command's owner.
LEMMA BeginKeeps ==
  ASSUME CoordinatorInd, NEW c \in Clients, NEW id \in Ids, ResolveBegin(c, id)
  PROVE  CoordinatorInd'
<1>1. RunnerInd /\ RegistryTypeOK /\ RegistryInv /\ SeekInv /\ TypeOK /\ CommandOK(id) /\ Ordered
  BY DEF CoordinatorInd, RunnerInd, RecordInv, RecordOK, Ordered
<1>2. UNCHANGED runnerVars /\ UNCHANGED registry
  BY DEF ResolveBegin
<1>3. RunnerInd' /\ Settled
  BY <1>1, <1>2, RunnersKeep
<1>4. UNCHANGED <<root, owner, work, tracked, answer>>
  BY <1>2 DEF runnerVars, log, command
<1>5. RegistryInv' /\ UNCHANGED <<base, current, retired, made>>
  BY <1>1, <1>2, <1>3, <1>4, RegistryKept DEF RegistryInv, registry
<1> DEFINE b == id \in tracked
<1>6. PICK paths \in SortedPaths :
        seek' = [seek EXCEPT ![c] =
          [at |-> "track", id |-> id, list |-> Snapshot(paths), i |-> 1,
           tracked |-> b, told |-> answer[id]]]
  BY DEF ResolveBegin
<1> DEFINE s == Snapshot(paths)
           q == [at |-> "track", id |-> id, list |-> s, i |-> 1, tracked |-> b, told |-> answer[id]]
<1>7. s \in Seq(made) /\ 1 \in 1..Len(s) /\ \A r \in made : Holds(s, r)
  BY <1>1, SnapshotHolds
<1>8. b \in BOOLEAN /\ (b => work[id] \notin {"unborn", "recorded"})
  BY <1>1 DEF CommandOK
<1> HIDE DEF s, b
<1>9. q \in Seek
  BY <1>1, <1>7, <1>8 DEF Seek, TypeOK
<1>10. /\ seek' = [seek EXCEPT ![c] = q] /\ seek'[c] = q
       /\ \A d \in Clients : d # c => seek'[d] = seek[d]
  BY <1>1, <1>6 DEF RegistryTypeOK, s
<1>11. /\ q.at = "track" /\ q.id = id /\ q.list = s /\ q.i = 1 /\ q.tracked = b
       /\ q.told = answer[id]
  OBVIOUS
<1> HIDE DEF q
<1>12. RegistryTypeOK'
  <2>1. seek' \in [Clients -> Seek] /\ Seek' = Seek
    BY <1>1, <1>5, <1>9, <1>10 DEF RegistryTypeOK, Seek
  <2>2. \A d \in Clients : seek'[d].at # "idle" => seek'[d].i \in 1..Len(seek'[d].list)
    BY <1>1, <1>7, <1>10, <1>11 DEF RegistryTypeOK
  <2>3. QED
    BY <1>1, <1>5, <2>1, <2>2 DEF RegistryTypeOK
<1>13. owner[id] \in made /\ owner[id] # NoOne
  BY <1>1 DEF ResolveBegin, RegistryInv
<1>14. SeekKnows(c)'
  <2>1. \E j \in 1..Len(s) : s[j] = owner[id]
    BY <1>7, <1>13 DEF Holds
  <2>2. {s[j] : j \in 1..(1 - 1)} = {}
    OBVIOUS
  <2>3. QED
    BY <1>4, <1>8, <1>10, <1>11, <1>13, <2>1, <2>2 DEF SeekKnows
<1>15. SeekInv'
  BY <1>1, <1>3, <1>10, <1>14, OthersSeek
<1>16. QED
  BY <1>3, <1>5, <1>12, <1>15 DEF CoordinatorInd

\* The part of the invariant that a pass keeps whatever it finds.
LEMMA PassKeeps ==
  ASSUME RegistryTypeOK, RegistryInv, SeekInv, NEW c \in Clients, NEW has \in BOOLEAN,
         NEW next \in {"know", "found"}, Pass(c, has, next), seek[c].at # "idle",
         UNCHANGED registry, UNCHANGED command, Settled
  PROVE  RegistryTypeOK' /\ RegistryInv'
<1>1. UNCHANGED <<base, current, retired, made, owner>>
  BY DEF registry, command
<1>2. /\ seek' \in [Clients -> Seek'] /\ seek'[c].list = seek[c].list
      /\ seek'[c].i \in 1..Len(seek[c].list)
      /\ \A d \in Clients : d # c => seek'[d] = seek[d]
  BY <1>1, PassFacts
<1>3. \A d \in Clients : seek'[d].at # "idle" => seek'[d].i \in 1..Len(seek'[d].list)
  BY <1>2 DEF RegistryTypeOK
<1>4. RegistryTypeOK'
  BY <1>1, <1>2, <1>3 DEF RegistryTypeOK
<1>5. QED
  BY <1>1, <1>4, RegistryKept DEF RegistryInv

\* The runners a pass has gone by: one more at each step, all of them at its end.
LEMMA PassedGrows ==
  ASSUME RegistryTypeOK, NEW c \in Clients, seek[c].at # "idle", NEW x,
         x \notin {seek[c].list[j] : j \in 1..(seek[c].i - 1)}, Found(c) # x
  PROVE  /\ x \notin {seek[c].list[j] : j \in 1..((seek[c].i + 1) - 1)}
         /\ seek[c].i = Len(seek[c].list) => ~Holds(seek[c].list, x)
<1>1. seek[c].i \in Nat /\ 1 <= seek[c].i
  BY DEF RegistryTypeOK
<1>2. \A j \in 1..((seek[c].i + 1) - 1) : j \in 1..(seek[c].i - 1) \/ j = seek[c].i
  BY <1>1
<1>3. \A j \in 1..seek[c].i : j \in 1..(seek[c].i - 1) \/ j = seek[c].i
  BY <1>1
<1>4. QED
  BY <1>2, <1>3 DEF Found, Holds

\* tracksCommand on one runner of the snapshot: going by the owner means that the
\* command is tracked no more.
LEMMA TrackedKeeps ==
  ASSUME CoordinatorInd, NEW c \in Clients, ResolveTracked(c)
  PROVE  CoordinatorInd'
<1> DEFINE q == seek[c]
           o == owner[q.id]
           has == Tracks(Found(c), q.id)
<1>1. RunnerInd /\ RegistryTypeOK /\ RegistryInv /\ SeekInv /\ TypeOK /\ Ordered
  BY DEF CoordinatorInd, RunnerInd, Ordered
<1>2. q.at = "track" /\ Pass(c, has, "know") /\ UNCHANGED runnerVars /\ UNCHANGED registry
  BY DEF ResolveTracked, Found
<1>3. RunnerInd' /\ Settled
  BY <1>1, <1>2, RunnersKeep
<1>4. UNCHANGED <<root, swept, owner, work, tracked, answer, made>> /\ UNCHANGED command
  BY <1>2 DEF runnerVars, log, command, registry
<1>5. has \in BOOLEAN /\ (has => o = Found(c))
  BY DEF Tracks
<1>6. ~has /\ q.id \in tracked => o # Found(c)
  BY DEF Tracks
<1>7. SeekKnows(c)
  BY <1>1 DEF SeekInv
<1>8. /\ q.id \in Ids /\ o # NoOne /\ Holds(q.list, o)
      /\ q.told \in Final => answer[q.id] = q.told
      /\ q.tracked => work[q.id] \notin {"unborn", "recorded"}
      /\ q.tracked /\ q.id \in tracked => o \notin {q.list[j] : j \in 1..(q.i - 1)}
  BY <1>2, <1>7 DEF SeekKnows, Holds
<1> HIDE DEF has
<1>9. /\ \A d \in Clients : d # c => seek'[d] = seek[d]
      /\ seek'[c].id = q.id /\ seek'[c].list = q.list
      /\ seek'[c].tracked = q.tracked /\ seek'[c].told = q.told
      /\ \/ has /\ seek'[c].at = "found" /\ seek'[c].i = q.i
         \/ ~has /\ seek'[c].at = "track" /\ seek'[c].i = q.i + 1
         \/ ~has /\ q.i = Len(q.list) /\ seek'[c].at = "know" /\ seek'[c].i = 1
  BY <1>1, <1>2, <1>4, <1>5, PassFacts
<1>10. RegistryTypeOK' /\ RegistryInv'
  BY <1>1, <1>2, <1>3, <1>4, <1>5, PassKeeps
<1>11. SeekKnows(c)'
  <2>1. /\ owner'[q.id] = o /\ \E j \in 1..Len(q.list) : q.list[j] = o
        /\ q.told \in Final => answer'[q.id] = q.told
        /\ q.tracked => work'[q.id] \notin {"unborn", "recorded"}
    BY <1>4, <1>8 DEF Holds
  <2>2. CASE has /\ seek'[c].at = "found" /\ seek'[c].i = q.i
    <3>1. Found(c)' = Found(c)
      BY <1>9, <2>2 DEF Found
    <3>2. SharesLog(Found(c), o)'
      BY <1>4, <1>5, <1>9, <2>2, <3>1 DEF SharesLog
    <3>3. QED
      BY <1>4, <1>5, <1>8, <1>9, <2>1, <2>2, <3>1, <3>2 DEF SeekKnows
  <2>3. CASE ~has /\ seek'[c].at = "track" /\ seek'[c].i = q.i + 1
    <3>1. q.tracked /\ q.id \in tracked => o \notin {q.list[j] : j \in 1..((q.i + 1) - 1)}
      BY <1>1, <1>2, <1>6, <1>8, <2>3, PassedGrows
    <3>2. QED
      BY <1>4, <1>8, <1>9, <2>1, <2>3, <3>1 DEF SeekKnows
  <2>4. CASE ~has /\ q.i = Len(q.list) /\ seek'[c].at = "know" /\ seek'[c].i = 1
    <3>1. ~(q.tracked /\ q.id \in tracked)
      BY <1>1, <1>2, <1>6, <1>8, <2>4, PassedGrows
    <3>2. {q.list[j] : j \in 1..(1 - 1)} = {}
      OBVIOUS
    <3>3. QED
      BY <1>4, <1>8, <1>9, <2>1, <2>4, <3>1, <3>2 DEF SeekKnows
  <2>5. QED
    BY <1>9, <2>2, <2>3, <2>4
<1>12. SeekInv'
  BY <1>1, <1>3, <1>9, <1>11, OthersSeek
<1>13. QED
  BY <1>3, <1>10, <1>12 DEF CoordinatorInd

\* The second pass over one runner of the snapshot: of a command whose status was
\* given and whose record is not retired, the owner is not gone by, and whoever is
\* stopped at reads the owner's records.
LEMMA KnowStep ==
  ASSUME CoordinatorInd, NEW c \in Clients, NEW has \in BOOLEAN, seek[c].at = "know",
         Pass(c, has, "found"), UNCHANGED <<root, swept, command>>, UNCHANGED registry,
         RunnerInd', Settled,
         has => SharesLog(Found(c), owner[seek[c].id]),
         ~has /\ answer[seek[c].id] \in Final /\ seek[c].id \notin swept =>
           owner[seek[c].id] # Found(c)
  PROVE  CoordinatorInd'
<1> DEFINE q == seek[c]
           o == owner[q.id]
<1>1. RunnerInd /\ RegistryTypeOK /\ RegistryInv /\ SeekInv /\ TypeOK /\ Ordered
  BY DEF CoordinatorInd, RunnerInd, Ordered
<1>2. SeekKnows(c) /\ q.id \in Ids /\ Found(c) \in Runners
  BY <1>1, SeekRunner DEF SeekInv, SeekKnows
<1>3. UNCHANGED <<root, swept, owner, work, tracked, answer, made>>
  BY DEF command, registry
<1>4. /\ o # NoOne /\ Holds(q.list, o)
      /\ q.told \in Final => answer[q.id] = q.told
      /\ q.tracked => work[q.id] \notin {"unborn", "recorded"} /\ q.id \notin tracked
      /\ q.told \in Final /\ q.id \notin swept => o \notin {q.list[j] : j \in 1..(q.i - 1)}
  BY <1>2 DEF SeekKnows, Holds
<1>5. ~has /\ q.told \in Final /\ q.id \notin swept => o # Found(c)
  BY <1>4
<1>6. /\ \A d \in Clients : d # c => seek'[d] = seek[d]
      /\ seek'[c].id = q.id /\ seek'[c].list = q.list
      /\ seek'[c].tracked = q.tracked /\ seek'[c].told = q.told
      /\ \/ has /\ seek'[c].at = "found" /\ seek'[c].i = q.i
         \/ ~has /\ seek'[c].at = "know" /\ seek'[c].i = q.i + 1
         \/ ~has /\ q.i = Len(q.list) /\ seek'[c].at = "found" /\ seek'[c].i = 1
  BY <1>1, <1>3, PassFacts
<1>7. RegistryTypeOK' /\ RegistryInv'
  BY <1>1, PassKeeps
<1>8. SeekKnows(c)'
  <2>1. /\ owner'[q.id] = o /\ \E j \in 1..Len(q.list) : q.list[j] = o
        /\ q.told \in Final => answer'[q.id] = q.told
        /\ q.tracked => work'[q.id] \notin {"unborn", "recorded"}
        /\ q.tracked => q.id \notin tracked'
    BY <1>3, <1>4 DEF Holds
  <2>2. CASE has /\ seek'[c].at = "found" /\ seek'[c].i = q.i
    <3>1. Found(c)' = Found(c)
      BY <1>6, <2>2 DEF Found
    <3>2. SharesLog(Found(c), owner[q.id])'
      BY <1>3, <1>6, <2>2, <3>1 DEF SharesLog
    <3>3. QED
      BY <1>2, <1>3, <1>4, <1>6, <2>1, <2>2, <3>1, <3>2 DEF SeekKnows
  <2>3. CASE ~has /\ seek'[c].at = "know" /\ seek'[c].i = q.i + 1
    <3>1. q.told \in Final /\ q.id \notin swept =>
            o \notin {q.list[j] : j \in 1..((q.i + 1) - 1)}
      BY <1>1, <1>4, <1>5, <2>3, PassedGrows
    <3>2. QED
      BY <1>2, <1>3, <1>4, <1>6, <2>1, <2>3, <3>1 DEF SeekKnows
  <2>4. CASE ~has /\ q.i = Len(q.list) /\ seek'[c].at = "found" /\ seek'[c].i = 1
    <3>1. ~(q.told \in Final /\ q.id \notin swept)
      BY <1>1, <1>4, <1>5, <2>4, PassedGrows
    <3>2. QED
      BY <1>2, <1>3, <1>4, <1>6, <2>1, <2>4, <3>1 DEF SeekKnows
  <2>5. QED
    BY <1>6, <2>2, <2>3, <2>4
<1>9. SeekInv'
  BY <1>1, <1>6, <1>8, OthersSeek
<1>10. QED
  BY <1>7, <1>9 DEF CoordinatorInd

\* knowsCommand, where the index can be read: the owner of a command whose record is
\* not retired knows its end.
LEMMA KnownKeeps ==
  ASSUME CoordinatorInd, NEW c \in Clients, ResolveKnown(c)
  PROVE  CoordinatorInd'
<1>1. RunnerInd /\ RegistryTypeOK /\ TypeOK /\ LifeInv
  BY DEF CoordinatorInd, RunnerInd
<1>2. /\ seek[c].at = "know" /\ Pass(c, Known(Found(c), seek[c].id) # "none", "found")
      /\ Remember(Found(c), seek[c].id) /\ UNCHANGED registry
      /\ UNCHANGED <<life, root, file, row, dropped, swept, command, call, ghost>>
  BY DEF ResolveKnown, Found
<1>3. /\ seek[c].id \in Ids /\ owner[seek[c].id] \in Runners /\ Found(c) \in Runners
      /\ RecordOK(seek[c].id)
  BY <1>1, <1>2, SeekRunner
     DEF CoordinatorInd, SeekInv, SeekKnows, TypeOK, RunnerInd, RecordInv
<1>4. RunnerInd' /\ Settled
  BY <1>1, <1>2, <1>3, LookKeeps
<1>5. PICK r \in Runners, id \in Ids : r = Found(c) /\ id = seek[c].id
  BY <1>3
<1>6. DiskOK(id) /\ CacheOK(r, id) /\ CommandOK(id)
  BY <1>3, <1>5 DEF RecordOK
<1>7. Known(r, id) # "none" => SharesLog(r, owner[id])
  <2>1. Known(r, id) # "none" => cache[r][id] # "none" \/ OnDisk(r, id) # "none"
    BY DEF Known, Final
  <2>2. QED
    BY <1>1, <1>6, <2>1, OnDiskFacts DEF CacheOK
<1>8. Known(r, id) = "none" /\ answer[id] \in Final /\ id \notin swept => owner[id] # r
  <2>1. answer[id] \in Final => returned[id] \in Final
    BY <1>6 DEF CommandOK
  <2>2. returned[id] \in Final /\ id \notin swept /\ r = owner[id] => Known(r, id) = returned[id]
    BY <1>1, <1>3, <1>5, EndIsKnown DEF SharesLog
  <2>3. QED
    BY <2>1, <2>2 DEF Final
<1>9. QED
  BY <1>2, <1>4, <1>5, <1>7, <1>8, KnowStep

\* A runner that cannot read its index is not the owner of such a command, which has
\* its end in the cache.
LEMMA UnreadableKeeps ==
  ASSUME CoordinatorInd, NEW c \in Clients, ResolveUnreadable(c)
  PROVE  CoordinatorInd'
<1>1. RunnerInd /\ RegistryTypeOK
  BY DEF CoordinatorInd, RunnerInd
<1>2. /\ seek[c].at = "know" /\ MayFail(Found(c), seek[c].id) /\ Pass(c, FALSE, "found")
      /\ UNCHANGED runnerVars /\ UNCHANGED registry
  BY DEF ResolveUnreadable, Found
<1>3. UNCHANGED <<root, swept, command>>
  BY <1>2 DEF runnerVars, log
<1>4. RunnerInd' /\ Settled
  BY <1>1, <1>2, RunnersKeep
<1>5. seek[c].id \in Ids /\ RecordOK(seek[c].id)
  BY <1>1, <1>2 DEF CoordinatorInd, SeekInv, SeekKnows, RunnerInd, RecordInv
<1>6. answer[seek[c].id] \in Final /\ seek[c].id \notin swept => owner[seek[c].id] # Found(c)
  BY <1>2, <1>5 DEF RecordOK, CommandOK, KeptOK, MayFail
<1>7. QED
  BY <1>2, <1>3, <1>4, <1>6, KnowStep

\* The client calls the runner it found.
LEMMA CallKeeps ==
  ASSUME CoordinatorInd, NEW c \in Clients, CallFound(c)
  PROVE  CoordinatorInd'
<1>1. RunnerInd /\ RegistryTypeOK /\ RegistryInv /\ SeekInv /\ Ordered
  BY DEF CoordinatorInd, Ordered
<1>2. /\ seek[c].at = "found" /\ CallBegins(c, Found(c), seek[c].id)
      /\ seek' = [seek EXCEPT ![c] = NoSeek] /\ UNCHANGED registry
  BY DEF CallFound
<1>3. Found(c) \in Runners /\ seek[c].id \in Ids
  BY <1>1, <1>2, SeekRunner DEF SeekInv, SeekKnows
<1>4. RunnerInd' /\ Settled
  <2>1. RunnerNext
    BY <1>2, <1>3 DEF RunnerNext
  <2>2. QED
    BY <1>1, <2>1, RunnersKeep
<1>5. owner' = owner
  BY <1>2 DEF CallBegins, AbortLoad, WaitFirst, command
<1>6. RegistryInv' /\ UNCHANGED <<base, current, retired, made>>
  BY <1>1, <1>2, <1>4, <1>5, RegistryKept DEF RegistryInv, registry
<1>7. NoSeek \in Seek
  <2>1. <<>> \in Seq(made)
    OBVIOUS
  <2>2. QED
    BY <2>1 DEF NoSeek, Seek, Status
<1>8. seek' \in [Clients -> Seek] /\ seek'[c] = NoSeek /\ \A d \in Clients : d # c => seek'[d] = seek[d]
  BY <1>1, <1>2, <1>7 DEF RegistryTypeOK
<1>9. SeekKnows(c)' /\ seek'[c].at = "idle"
  BY <1>8 DEF SeekKnows, NoSeek
<1>10. SeekInv'
  BY <1>1, <1>4, <1>8, <1>9, OthersSeek
<1>11. RegistryTypeOK'
  <2>1. Seek' = Seek
    BY <1>6 DEF Seek
  <2>2. \A d \in Clients : seek'[d].at # "idle" => seek'[d].i \in 1..Len(seek'[d].list)
    BY <1>1, <1>8, <1>9 DEF RegistryTypeOK
  <2>3. QED
    BY <1>1, <1>6, <1>8, <2>1, <2>2 DEF RegistryTypeOK
<1>12. QED
  BY <1>4, <1>6, <1>10, <1>11 DEF CoordinatorInd

\* What leaves registry and Resolve alone keeps their invariants.
LEMMA AloneKeeps ==
  ASSUME CoordinatorInd, RunnerInd', Settled, UNCHANGED <<registry, seek>>,
         \A id \in Ids : owner'[id] \in made \cup {NoOne}
  PROVE  CoordinatorInd'
<1>1. RegistryTypeOK /\ RegistryInv /\ SeekInv /\ Ordered
  BY DEF CoordinatorInd, Ordered
<1>2. UNCHANGED <<base, current, retired, made>>
  BY DEF registry
<1>3. RegistryTypeOK'
  BY <1>1, <1>2 DEF RegistryTypeOK, Seek
<1>4. RegistryInv'
  BY <1>1, RegistryKept
<1>5. SeekInv'
  BY <1>1, SeekKept DEF SeekInv
<1>6. QED
  BY <1>3, <1>4, <1>5 DEF CoordinatorInd

\* Histories, commands and calls go on, and only runners that exist start commands.
LEMMA CommandsKeep ==
  ASSUME CoordinatorInd, UNCHANGED <<registry, seek>>,
         \/ \E r \in Runners : HistoryStep(r)
         \/ \E id \in Ids : CommandStep(id) \/ \E r \in made : StartStep(r, id)
         \/ \E c \in Clients : CallStep(c)
  PROVE  CoordinatorInd'
<1>1. RunnerInd /\ RegistryTypeOK /\ RegistryInv /\ TypeOK
  BY DEF CoordinatorInd, RunnerInd
<1>2. RunnerNext
  BY <1>1 DEF RunnerNext, RegistryTypeOK
<1>3. RunnerInd' /\ Settled
  BY <1>1, <1>2, RunnersKeep
<1>4. ASSUME NEW id \in Ids, NEW r \in made, StartStep(r, id)
      PROVE  \A j \in Ids : owner'[j] = owner[j] \/ owner'[j] = r
  BY <1>1, <1>4 DEF StartStep, RunInline, RecordRunning, RecordRunningFails, TypeOK
<1>5. ASSUME NEW id \in Ids, CommandStep(id) PROVE owner' = owner
  <2>1. CommandOK(id)
    BY <1>1 DEF RunnerInd, RecordInv, RecordOK
  <2>2. QED
    BY <1>1, <1>5, <2>1, CommandFacts DEF CommandFrame
<1>6. ASSUME NEW c \in Clients, CallStep(c) PROVE owner' = owner
  BY <1>1, <1>6, CallFacts DEF Quiet, RunnerInd
<1>7. ASSUME NEW r \in Runners, HistoryStep(r) PROVE owner' = owner
  BY <1>1, <1>7, HistoryFacts DEF HistoryFrame, command, RunnerInd
<1>8. \A id \in Ids : owner'[id] \in made \cup {NoOne}
  BY <1>1, <1>4, <1>5, <1>6, <1>7 DEF RegistryInv
<1>9. QED
  BY <1>3, <1>8, AloneKeeps

\* The registry changes while commands, calls and Resolves go on.
LEMMA RegistryKeeps ==
  ASSUME CoordinatorInd, RegistryStep
  PROVE  CoordinatorInd'
<1>1. RunnerInd /\ RegistryTypeOK /\ RegistryInv /\ SeekInv
  BY DEF CoordinatorInd
<1>2. ASSUME NEW r \in Runners, Register(r), RegistryTypeOK', RegistryInv'
      PROVE  CoordinatorInd'
  <2>1. RunnerInd' /\ Settled /\ Ordered /\ UNCHANGED seek
    BY <1>1, <1>2, RunnersKeep DEF Register, Ordered
  <2>2. SeekInv'
    BY <1>1, <2>1, SeekKept DEF SeekInv
  <2>3. QED
    BY <1>2, <2>1, <2>2 DEF CoordinatorInd
<1>3. ASSUME NEW r \in Runners, Reset(r) PROVE CoordinatorInd'
  BY <1>1, <1>2, <1>3, ResetKeeps DEF Reset
<1>4. ASSUME NEW r \in Runners, NEW k \in Repos, ForRepo(k, r) PROVE CoordinatorInd'
  BY <1>1, <1>2, <1>4, ForRepoKeeps DEF ForRepo
<1>5. QED
  BY <1>3, <1>4 DEF RegistryStep

-----------------------------------------------------------------------------
(* The theorems. *)

\* The coordinator starts with its base runner, and nothing under way.
LEMMA CoordinatorIndInit == Init => CoordinatorInd
<1> SUFFICES ASSUME Init PROVE CoordinatorInd
  OBVIOUS
<1>1. RunnerInd
  BY RunnerIndInit DEF Init
<1>2. base \in made /\ made = {base} /\ made \subseteq Runners /\ retired = <<>>
  BY DEF Init
<1>3. NoSeek \in Seek
  <2>1. <<>> \in Seq(made)
    OBVIOUS
  <2>2. QED
    BY <2>1 DEF NoSeek, Seek, Status
<1>4. RegistryTypeOK
  <2>1. seek \in [Clients -> Seek] /\ \A c \in Clients : seek[c].at = "idle"
    BY <1>3 DEF Init, NoSeek
  <2>2. current \in [Repos -> made \cup {NoOne}] /\ retired \in Seq(made)
    BY <1>2 DEF Init
  <2>3. QED
    BY <1>2, <2>1, <2>2 DEF RegistryTypeOK
<1>5. RegistryInv
  BY <1>2 DEF Init, RunnerInit, RegistryInv, Ready
<1>6. SeekInv
  BY DEF Init, SeekInv, SeekKnows, NoSeek
<1>7. QED
  BY <1>1, <1>4, <1>5, <1>6 DEF CoordinatorInd

\* Runners, registry and Resolve keep their invariant together.
THEOREM CoordinatorInductive == Spec => []CoordinatorInd
<1>1. CoordinatorInd /\ [Next]_vars => CoordinatorInd'
  <2> SUFFICES ASSUME CoordinatorInd, [Next]_vars PROVE CoordinatorInd'
    OBVIOUS
  <2>1. CASE RegistryStep
    BY <2>1, RegistryKeeps
  <2>2. ASSUME NEW c \in Clients, ResolveStep(c) PROVE CoordinatorInd'
    BY <2>2, BeginKeeps, TrackedKeeps, KnownKeeps, UnreadableKeeps, CallKeeps DEF ResolveStep
  <2>3. CASE /\ \/ \E r \in Runners : HistoryStep(r)
                \/ \E id \in Ids : CommandStep(id) \/ \E r \in made : StartStep(r, id)
                \/ \E c \in Clients : CallStep(c)
             /\ UNCHANGED <<registry, seek>>
    BY <2>3, CommandsKeep
  <2>4. CASE UNCHANGED vars
    <3>1. RunnerInd /\ RegistryInv
      BY DEF CoordinatorInd
    <3>2. UNCHANGED runnerVars /\ UNCHANGED <<registry, seek>> /\ owner' = owner
      BY <2>4 DEF vars, runnerVars, command
    <3>3. RunnerInd' /\ Settled
      BY <3>1, <3>2, RunnersKeep
    <3>4. QED
      BY <3>1, <3>2, <3>3, AloneKeeps DEF RegistryInv
  <2>5. QED
    BY <2>1, <2>2, <2>3, <2>4 DEF Next
<1>2. QED
  BY CoordinatorIndInit, <1>1, PTL DEF Spec

\* base, current, retired and every snapshot hold runners that exist, never nil, and
\* Resolve stays within its snapshot.
THEOREM RegistryTypeCorrect == Spec => []RegistryTypeOK
<1>1. CoordinatorInd => RegistryTypeOK
  BY DEF CoordinatorInd
<1>2. QED
  BY <1>1, CoordinatorInductive, PTL

\* A Resolve that begins and ends while a runner tracks the command returns that
\* runner, through any number of ForRepo and Reset in between.
THEOREM OwnerIsFound == Spec => []ResolveFindsOwner
<1>1. CoordinatorInd => ResolveFindsOwner
  BY DEF CoordinatorInd, SeekInv, SeekKnows, ResolveFindsOwner
<1>2. QED
  BY <1>1, CoordinatorInductive, PTL

\* A Resolve for a command whose status its starter was given returns a runner that
\* reports that status, until a Cleanup retires the record, through any number of
\* replacements, each with a Cleanup of its own; and never one that reports another.
THEOREM RecordIsFound == Spec => []ResolveFindsRecord
<1>1. ASSUME CoordinatorInd, NEW c \in Clients, seek[c].at = "found", seek[c].told \in Final
      PROVE  \/ Known(Found(c), seek[c].id) = seek[c].told
             \/ seek[c].id \in swept /\ Known(Found(c), seek[c].id) \notin Final
  <2>1. TypeOK /\ RegistryTypeOK /\ SeekKnows(c)
    BY <1>1 DEF CoordinatorInd, RunnerInd, SeekInv
  <2>2. Found(c) \in Runners /\ seek[c].id \in Ids
    BY <1>1, <2>1, SeekRunner DEF SeekKnows
  <2>3. PICK r \in Runners, id \in Ids : r = Found(c) /\ id = seek[c].id
    BY <2>2
  <2>4. /\ answer[id] = seek[c].told /\ answer[id] \in Final /\ owner[id] \in Runners
        /\ id \notin swept => SharesLog(r, owner[id])
    BY <1>1, <2>1, <2>3 DEF SeekKnows, TypeOK
  <2>5. RecordOK(id) /\ CommandOK(id)
    BY <1>1 DEF CoordinatorInd, RunnerInd, RecordInv, RecordOK
  <2>6. returned[id] = answer[id] /\ outcome[id] = returned[id]
    BY <2>4, <2>5 DEF CommandOK
  <2>7. CASE SharesLog(r, owner[id])
    BY <2>1, <2>3, <2>4, <2>5, <2>6, <2>7, EndIsKnown
  <2>8. CASE ~SharesLog(r, owner[id])
    BY <2>1, <2>3, <2>4, <2>5, <2>8, KnownFinal
  <2>9. QED
    BY <2>7, <2>8
<1>2. CoordinatorInd => ResolveFindsRecord
  BY <1>1 DEF ResolveFindsRecord
<1>3. QED
  BY <1>2, CoordinatorInductive, PTL

\* What Abort, the starter's answer and WaitForHistory promise holds for the runners
\* of a coordinator too, although it makes runners in mid-flight and its Resolve
\* fills their caches.
THEOREM PromisesHold == Spec => [](AbortOkIsFinal /\ AnswerIsDurable /\ WaitNotCutShort)
<1>1. CoordinatorInd => AbortOkIsFinal /\ AnswerIsDurable /\ WaitNotCutShort
  BY RunnerIndImplies DEF CoordinatorInd
<1>2. QED
  BY <1>1, CoordinatorInductive, PTL
=============================================================================
