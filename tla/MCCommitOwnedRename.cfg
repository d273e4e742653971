\* One agent whose owned file was renamed, and the rename staged, before the call.
CONSTANTS
  Agents = {a1}
  Procs = {k1}
  Paths = {p1, p2}
  Contents = {v1}
  Similar <- AllSimilar
  Absent = absent
  None = none
  MaxMoves = 0
  MaxCommits = 1
  MaxCrashes = 0
SPECIFICATION Spec
PROPERTY CommitsExactlyOwned
CHECK_DEADLOCK FALSE
