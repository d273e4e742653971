-------------------------- MODULE MCCommandCoordinator --------------------------
(***************************************************************************)
(* CommandCoordinator for TLC: runners and roots are interchangeable.      *)
(***************************************************************************)
EXTENDS CommandCoordinator

Symmetry == Permutations(Runners) \cup Permutations(Roots)

\* What the run of CommandRunner explores is left to it: the host's own Cleanup of a
\* history that is open, a context that ends, and a call after its first step.
\* Histories are opened one at a time.
RegistryFirst ==
  /\ \A r \in Runners : life[r] # "cleaning"
  /\ Cardinality({r \in Runners : life[r] \in {"loaded", "opening"}}) <= 1
  /\ \A id \in Ids : ctx[id] = "live"
  /\ \A c \in Clients : call[c].at \in {"idle", "cancel", "lookup", "attach"}
=============================================================================
