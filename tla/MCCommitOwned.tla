----------------------------- MODULE MCCommitOwned -----------------------------
(***************************************************************************)
(* CommitOwned for TLC: everything in it is interchangeable.               *)
(***************************************************************************)
EXTENDS CommitOwned, TLC

\* Any content may be taken for a renamed form of any other.
AllSimilar == Contents \X Contents

Symmetry ==
  Permutations(Agents) \cup Permutations(Procs) \cup Permutations(Paths)
    \cup Permutations(Contents)
================================================================================
