\* Two agents, in one process or in two, in any repository, beside one move of an
\* outsider or a hook.
CONSTANTS
  Agents = {a1, a2}
  Procs = {k1, k2}
  Paths = {p1, p2}
  Contents = {v1, v2}
  Similar <- AllSimilar
  Absent = absent
  None = none
  MaxMoves = 1
  MaxCommits = 2
  MaxCrashes = 1
SPECIFICATION Spec
INVARIANTS LockInv IndInv
PROPERTIES GuardedCommit StagingSurvives
SYMMETRY Symmetry
CHECK_DEADLOCK FALSE
