SPECIFICATION Spec
CONSTANTS
  norm = norm  local = local  fall = fall  cex = cex
  q1 = q1  q2 = q2  ecm = ecm  NoReader = NoReader
  MatchingRdr <- OneNorm
  Kind <- OneNormKind
  Selections <- OneNormAll
  Requests = {q1, q2}
  Ecm <- SameEcm
  Answers = {"found", "badcw"}
  Refusals = {}
  PreferLocal = 0
  WaitTime = FALSE
  HitCache = FALSE
  Mode1Delay = FALSE
  WaitUntilCtimeout = FALSE
  DoubleCheck = FALSE
  CachePush = FALSE
  Unreachable = {}
  Disconnects = FALSE
  MaxJobs = 1
  MaxAge = 4
INVARIANTS GivenUpOnlyIfBad
