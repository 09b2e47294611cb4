SPECIFICATION Spec
CONSTANTS
  Jobs = {j1, j2, j3}
  Workers = {w1, w2, w3}
  NoJob = NoJob
  Event = Event
  Sockets = {FALSE}
  MayKill = FALSE
  MayExpire = FALSE
  StartMayFail = FALSE
CHECK_DEADLOCK FALSE
INVARIANTS JobKept
