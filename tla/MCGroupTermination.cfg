\* Two commands and a bystander over two ids: an id is freed and handed out
\* again while the command that had it first still has steps to take.
CONSTANTS
  Commands = {c1, c2}
  Pids = {p1, p2}
  MaxKin = 1
  Bystander = bystander
  Nobody = nobody
  NoPid = nopid
  WaitidMayFail = TRUE
SPECIFICATION FairSpec
INVARIANTS TypeOK IndInv NoStrayKill NoSurvivors
PROPERTY CancelEndsRun
CHECK_DEADLOCK FALSE
