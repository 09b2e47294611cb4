SPECIFICATION FairSpec
CONSTANTS
  Jobs = {j1, j2, j3}
  Workers = {w1, w2, w3}
  NoJob = NoJob
  Event = Event
  Sockets = {TRUE, FALSE}
  MayKill = TRUE
  MayExpire = TRUE
  StartMayFail = TRUE
CHECK_DEADLOCK FALSE
INVARIANTS TypeOK OneRunner InOrder NoJobLost
PROPERTIES EventuallyHandled
