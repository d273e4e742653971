------------------------------ MODULE FileQueries -----------------------------
(***************************************************************************)
(* The tools that look at files without changing them, one call at a time  *)
(* over a tree that others edit: the reads of FileReads, the walks of      *)
(* FileWalk and the search of RepoSearch. The calls share nothing but the  *)
(* tree, so one of them at a time stands for any number.                   *)
(***************************************************************************)
EXTENDS FileReads, FileWalk, RepoSearch

vars == <<treeVars, readVars, walkVars, searchVars>>

Init ==
  /\ TreeInit
  /\ \/ \E m \in {"page", "batch", "repo"} : ReadsInit(m) /\ WalkOff /\ RepoSearchOff
     \/ ReadsOff /\ WalkInit /\ RepoSearchOff
     \/ ReadsOff /\ WalkOff /\ RepoSearchInit

\* A call is under way.
Busy ==
  \/ outcome = "going"
  \/ stage \in {"start", "walk", "search"}
  \/ status \in {"start", "walk"}

OthersEdit == Busy /\ Edit /\ UNCHANGED <<readVars, walkVars, searchVars>>

\* The call has returned.
Returned == ~Busy /\ UNCHANGED vars

Next ==
  \/ ReadsNext /\ UNCHANGED <<walkVars, searchVars>>
  \/ WalkNext /\ UNCHANGED <<readVars, searchVars>>
  \/ RepoSearchNext /\ UNCHANGED <<readVars, walkVars>>
  \/ OthersEdit
  \/ Returned

Spec == Init /\ [][Next]_vars
=============================================================================
