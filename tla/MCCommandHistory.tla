--------------------------- MODULE MCCommandHistory ---------------------------
(***************************************************************************)
(* CommandHistory for TLC: helpers and commands are interchangeable.       *)
(***************************************************************************)
EXTENDS CommandHistory, TLC

Symmetry == Permutations(Helpers) \cup Permutations(Ids)

\* Writers run with a clock that steps; it stands once readers come in.
ReadersAtRest ==
  \/ told = {} /\ \A h \in Helpers : query[h].at = "idle"
  \/ \A h \in Helpers : \A row \in rows \cup kept[h] \cup ({arg[h]} \ {NoOne}) : row.at = 1
=============================================================================
