\* One command whose context expires while run holds the mutex.
CONSTANTS
  Commands = {c1}
  Pids = {p1}
  MaxKin = 1
  Bystander = bystander
  Nobody = nobody
  NoPid = nopid
  WaitidMayFail = FALSE
SPECIFICATION FairSpec
PROPERTY LosingCancelReturns
CHECK_DEADLOCK FALSE
