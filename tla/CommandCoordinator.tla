-------------------------- MODULE CommandCoordinator --------------------------
(***************************************************************************)
(* Coordinator (command/coordinator.go): one runner per repository under   *)
(* its effective policy. A policy change or a config reload replaces       *)
(* runners while their commands go on; Resolve walks a snapshot of base,   *)
(* current and retired runners, without any lock, to the one that answers  *)
(* for a command id. Clients call Abort and WaitForHistory on that one.    *)
(***************************************************************************)
EXTENDS CommandRunner, Sequences, SequencesExt

CONSTANT Repos   \* the repositories, in the order of their paths: 1..N

ASSUME CoordinatorAssumption == Repos \subseteq Nat /\ IsFiniteSet(Repos)

VARIABLES
  base,     \* Coordinator.base
  current,  \* Coordinator.current: the runner of each repository
  retired,  \* Coordinator.retired
  made,     \* the runners that are, or were, in the registry
  seek      \* the Resolve of each client, and the call that follows it

registry == <<base, current, retired, made>>
vars == <<runnerVars, registry, seek>>

NoSeek == [at |-> "idle", id |-> NoOne, list |-> <<>>, i |-> 1, tracked |-> FALSE,
           told |-> "none"]

Seek == [at : {"idle", "track", "know", "found"}, id : Ids \cup {NoOne},
         list : Seq(made), i : Nat, tracked : BOOLEAN, told : Status \cup {"none", "error"}]

RegistryTypeOK ==
  /\ base \in made
  /\ current \in [Repos -> made \cup {NoOne}]
  /\ retired \in Seq(made)
  /\ made \subseteq Runners
  /\ seek \in [Clients -> Seek]
  /\ \A c \in Clients : seek[c].at # "idle" => seek[c].i \in 1..Len(seek[c].list)

Init ==
  /\ RunnerInit
  /\ \E r \in Runners : life[r] = "up" /\ base = r /\ made = {r}
  /\ current = [k \in Repos |-> NoOne]
  /\ retired = <<>>
  /\ seek = [c \in Clients |-> NoSeek]

-----------------------------------------------------------------------------
(* The registry. *)

\* The rest leaves the runners alone.
Register(r) ==
  /\ r \notin made
  /\ life[r] = "up"
  /\ made' = made \cup {r}
  /\ UNCHANGED <<runnerVars, seek>>

\* Faulty form: the runner that is replaced is forgotten.
ForRepoForgets(k, r) ==
  /\ Register(r)
  /\ current' = [current EXCEPT ![k] = r]
  /\ UNCHANGED <<base, retired>>

\* Faulty form: a runner is retired that was never there.
ForRepoRetiresNil(k, r) ==
  /\ Register(r)
  /\ retired' = Append(retired, current[k])
  /\ current' = [current EXCEPT ![k] = r]
  /\ UNCHANGED base

\* ForRepo with a policy that is new for the repository; with the old one it
\* changes nothing. The new runner is made, history and Cleanup included, under
\* the mutex of the registry: a Resolve that begins meanwhile waits for the end.
ForRepo(k, r) ==
  /\ Register(r)
  /\ retired' = IF current[k] = NoOne THEN retired ELSE Append(retired, current[k])
  /\ current' = [current EXCEPT ![k] = r]
  /\ UNCHANGED base

CurrentRunners == {current[k] : k \in Repos} \ {NoOne}

\* Faulty form: only the base runner is retired.
ResetForgets(r) ==
  /\ Register(r)
  /\ base' = r
  /\ current' = [k \in Repos |-> NoOne]
  /\ retired' = <<base>> \o retired

\* Reset: current runners are retired in the order of a map's iteration.
Reset(r) ==
  /\ Register(r)
  /\ base' = r
  /\ current' = [k \in Repos |-> NoOne]
  /\ \E s \in SetToSeqs(CurrentRunners) : retired' = <<base>> \o s \o retired

-----------------------------------------------------------------------------
(* Resolve. *)

\* sort.Strings: the paths that have a runner, in order (there is one such sequence).
Present == {k \in Repos : current[k] # NoOne}
SortedPaths ==
  {p \in SetToSeqs(Present) : \A i, j \in 1..Cardinality(Present) : i < j => p[i] < p[j]}

\* snapshot: base, the current runners by path, the retired ones.
Snapshot(paths) ==
  <<base>> \o [i \in 1..Cardinality(Present) |-> current[paths[i]]] \o retired

ResolveBegin(c, id) ==
  /\ seek[c].at = "idle"
  /\ call[c].at = "idle"
  /\ owner[id] # NoOne
  /\ \E paths \in SortedPaths :
       seek' = [seek EXCEPT ![c] =
         [at |-> "track", id |-> id, list |-> Snapshot(paths), i |-> 1,
          tracked |-> id \in tracked, told |-> answer[id]]]
  /\ UNCHANGED <<runnerVars, registry>>

\* A pass over the snapshot: stop at a runner that has the command, else go to
\* the next one, else do what comes after the pass.
Pass(c, has, next) ==
  seek' = CASE has                                      -> [seek EXCEPT ![c].at = "found"]
            [] ~has /\ seek[c].i < Len(seek[c].list) -> [seek EXCEPT ![c].i = @ + 1]
            [] OTHER -> [seek EXCEPT ![c].at = next, ![c].i = 1]

\* First pass: tracksCommand.
ResolveTracked(c) ==
  /\ seek[c].at = "track"
  /\ Pass(c, Tracks(seek[c].list[seek[c].i], seek[c].id), "know")
  /\ UNCHANGED <<runnerVars, registry>>

\* Second pass: knowsCommand. The base runner answers for an unknown id.
ResolveKnown(c) ==
  /\ seek[c].at = "know"
  /\ LET r == seek[c].list[seek[c].i]
         id == seek[c].id IN
     /\ Pass(c, Known(r, id) # "none", "found")
     /\ Remember(r, id)
  /\ UNCHANGED <<life, root, file, row, dropped, swept, command, call, ghost, registry>>

\* knowsCommand takes a runner that cannot read its index for one that does not
\* know the command.
ResolveUnreadable(c) ==
  /\ seek[c].at = "know"
  /\ MayFail(seek[c].list[seek[c].i], seek[c].id)
  /\ Pass(c, FALSE, "found")
  /\ UNCHANGED <<runnerVars, registry>>

Found(c) == seek[c].list[seek[c].i]

\* The client calls the runner it found.
CallFound(c) ==
  /\ seek[c].at = "found"
  /\ CallBegins(c, Found(c), seek[c].id)
  /\ seek' = [seek EXCEPT ![c] = NoSeek]
  /\ UNCHANGED registry

-----------------------------------------------------------------------------
RegistryStep ==
  \E r \in Runners : Reset(r) \/ \E k \in Repos : ForRepo(k, r)

ResolveStep(c) ==
  \/ \E id \in Ids : ResolveBegin(c, id)
  \/ ResolveTracked(c)
  \/ ResolveKnown(c)
  \/ ResolveUnreadable(c)
  \/ CallFound(c)

Next ==
  \/ RegistryStep
  \/ \E c \in Clients : ResolveStep(c)
  \/ /\ \/ \E r \in Runners : HistoryStep(r)
        \/ \E id \in Ids : CommandStep(id) \/ \E r \in made : StartStep(r, id)
        \/ \E c \in Clients : CallStep(c)
     /\ UNCHANGED <<registry, seek>>

Spec == Init /\ [][Next]_vars

-----------------------------------------------------------------------------
(* Properties. *)

\* An active command is never out of reach: a Resolve that starts and ends while
\* a runner tracks it finds that runner, however the registry changes meanwhile.
ResolveFindsOwner ==
  \A c \in Clients :
    seek[c].at = "found" /\ seek[c].tracked /\ seek[c].id \in tracked =>
      Found(c) = owner[seek[c].id]

\* A command whose status its starter was given is answered for by a runner that
\* reports that status, whichever runner executed it, whatever has replaced it and
\* whichever index could not be read, until a Cleanup, of a runner of this registry
\* or of another helper, retires the record; and then by none that reports another.
ResolveFindsRecord ==
  \A c \in Clients :
    seek[c].at = "found" /\ seek[c].told \in Final =>
      \/ Known(Found(c), seek[c].id) = seek[c].told
      \/ seek[c].id \in swept /\ Known(Found(c), seek[c].id) \notin Final
-----------------------------------------------------------------------------
(* The inductive invariant behind the properties. *)

\* The snapshot reaches every runner that exists, and so every owner of a command.
RegistryInv ==
  /\ \A id \in Ids : owner[id] \in made \cup {NoOne}
  /\ \A r \in made : Ready(r)
  /\ \A r \in made :
       \/ r = base
       \/ \E k \in Repos : current[k] = r
       \/ \E i \in 1..Len(retired) : retired[i] = r

\* A pass of Resolve has not gone past the owner while it had what the pass asks for.
SeekKnows(c) ==
  LET q == seek[c]
      passed == {q.list[j] : j \in 1..(q.i - 1)} IN
  q.at # "idle" =>
    /\ q.id \in Ids /\ owner[q.id] # NoOne
    /\ \E j \in 1..Len(q.list) : q.list[j] = owner[q.id]
    /\ q.told \in Final => answer[q.id] = q.told
    /\ q.tracked => work[q.id] \notin {"unborn", "recorded"}
    /\ q.at = "track" /\ q.tracked /\ q.id \in tracked => owner[q.id] \notin passed
    /\ q.at = "know" /\ q.tracked => q.id \notin tracked
    /\ q.at = "know" /\ q.told \in Final /\ q.id \notin swept => owner[q.id] \notin passed
    /\ q.at = "found" /\ q.tracked /\ q.id \in tracked => Found(c) = owner[q.id]
    /\ q.at = "found" /\ q.told \in Final /\ q.id \notin swept =>
         SharesLog(Found(c), owner[q.id])

SeekInv == \A c \in Clients : SeekKnows(c)

CoordinatorInd == RunnerInd /\ RegistryTypeOK /\ RegistryInv /\ SeekInv
=============================================================================
