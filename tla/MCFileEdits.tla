----------------------------- MODULE MCFileEdits -----------------------------
(***************************************************************************)
(* FileEdits for TLC: callers, services and spans are interchangeable.     *)
(***************************************************************************)
EXTENDS FileEdits, TLC

Symmetry == Permutations(Callers) \cup Permutations(Services) \cup Permutations(Spans)
=============================================================================
