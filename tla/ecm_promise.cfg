SPECIFICATION FairSpec
CONSTANTS
  norm = norm  local = local  fall = fall  cex = cex
  q1 = q1  q2 = q2  ecm = ecm  NoReader = NoReader
  MatchingRdr <- CexNorm
  Kind <- CexNormKind
  Selections <- CexNormAll
  Requests = {q1}
  Ecm <- OneEcm
  Answers = {"found", "notfound"}
  Refusals = {}
  PreferLocal = 0
  WaitTime = TRUE
  HitCache = TRUE
  Mode1Delay = TRUE
  WaitUntilCtimeout = FALSE
  DoubleCheck = FALSE
  CachePush = TRUE
  Unreachable = {}
  Disconnects = FALSE
  MaxJobs = 1
  MaxAge = 3
INVARIANTS AnsweredOnce
PROPERTIES PromiseKept
