\* One command on one of two runners; either may share the one log root or have
\* its history in memory. A call on it, which must return whatever the command does.
CONSTANTS
  Runners = {r1, r2}
  Ids = {i1}
  Clients = {c1}
  Roots = {d1}
  Memory = memory
  NoOne = noone
SPECIFICATION FairRunnerSpec
INVARIANTS TypeOK AbortOkIsFinal AnswerIsDurable WaitNotCutShort
PROPERTY CallsReturn
CHECK_DEADLOCK FALSE
