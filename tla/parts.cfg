SPECIFICATION PartsSpec
CONSTANTS
  q1 = q1  q2 = q2  q3 = q3  ecm1 = ecm1  ecm2 = ecm2
  Nodes = {n1, n2, n3}
  Walkers = {q1, q2}  MaxVersion = 2
  extra = extra  Collector = Collector  Nil = Nil
  Data <- Memory  TimeoutTime = 1
  Parts = {"lock", "casc", "card", "list", "cws", "gc"}
  Requests = {q1, q2, q3}
  Ecms = {ecm1, ecm2}
  Ecm <- TwoAndOne
  MaxPending = 2  MaxTime = 2
  Protocols = {"newcamd", "camd35"}
  LoginMsgs = 1
  MsgIds = {65534}
  Idxs = {8189}
  NoRequest = NoRequest
  Systems = {"videoguard", "conax", "other"}
  Devices = {"plain", "azbox"}
  StatusEvery = 3
  ResetCycle = 1
  JobsLate = TRUE
  Flaky = TRUE
  MaxJobs = 3
  Threads = {t1, t2, t3, t4}
  Writers = {t1, t2, t3, t4}
  Readers = {t1, t2, t3, t4}
  Timeouts = TRUE
CHECK_DEADLOCK FALSE
SYMMETRY Symmetry
INVARIANTS
  PartsTypeOK
  Released NoLostWakeup
  RightAnswer Carried
  OneResetWaits FailsForCause
  LinksSound EachOnce
  NothingLost NotEarly NobodyLockedOut
PROPERTIES
  Excludes CacheKept
