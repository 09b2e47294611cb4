SPECIFICATION Spec
CONSTANTS
  norm = norm  local = local  fall = fall  cex = cex
  q1 = q1  q2 = q2  ecm = ecm  NoReader = NoReader
  MatchingRdr <- OneNorm
  Kind <- OneNormKind
  Selections <- OneNormAny
  Requests = {q1, q2}
  Ecm <- SameEcm
  Answers = {"found"}
  Refusals = {"filter", "limit"}
  PreferLocal = 0
  WaitTime = FALSE
  HitCache = FALSE
  Mode1Delay = FALSE
  WaitUntilCtimeout = FALSE
  DoubleCheck = FALSE
  CachePush = FALSE
  Unreachable = {}
  Disconnects = TRUE
  MaxJobs = 1
  MaxAge = 3
SYMMETRY Swap
INVARIANTS PendingServed ForwardedOnce AskedOnce
