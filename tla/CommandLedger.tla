---------------------------- MODULE CommandLedger ----------------------------
(***************************************************************************)
(* What a command log promises about one command's durable status: it only *)
(* moves forward. A command that is recorded as running may finish, a      *)
(* finished one never runs again, and only retention takes a command out   *)
(* of the log; a run that ends after its record was retired is logged anew *)
(* as finished (command/history.go: supersedes, latestEntries, Cleanup).   *)
(***************************************************************************)
CONSTANT Ids

VARIABLE status   \* the durable status of each command

Statuses == {"unborn", "running", "terminal", "retired"}

Init == status = [id \in Ids |-> "unborn"]

Start(id) ==
  /\ status[id] = "unborn"
  /\ status' = [status EXCEPT ![id] = "running"]

\* A command run without a wait budget is recorded once, when it has ended.
Finish(id) ==
  /\ status[id] # "terminal"
  /\ status' = [status EXCEPT ![id] = "terminal"]

Retire(S) ==
  /\ \A id \in S : status[id] \in {"running", "terminal"}
  /\ status' = [id \in Ids |-> IF id \in S THEN "retired" ELSE status[id]]

Next ==
  \/ \E id \in Ids : Start(id) \/ Finish(id)
  \/ \E S \in SUBSET Ids : Retire(S)

Spec == Init /\ [][Next]_status
=============================================================================
