SPECIFICATION StagesSpec
CONSTANTS
  norm = norm  local = local  fall = fall  cex = cex
  q1 = q1  q2 = q2  ecm = ecm  NoReader = NoReader
  er1 = er1  er2 = er2  NoEr = NoEr
  MatchingRdr <- CexLocalFall
  Kind <- CexLocalFallKind
  Selections <- CexLocalFallMay
  Requests = {q1}
  Ecm <- OneEcm
  Answers = {"found", "notfound"}
  Refusals = {}
  PreferLocal = 1
  WaitTime = TRUE
  HitCache = FALSE
  Mode1Delay = TRUE
  WaitUntilCtimeout = FALSE
  DoubleCheck = TRUE
  CachePush = FALSE
  Unreachable = {}
  Disconnects = FALSE
  MaxJobs = 1
  MaxAge = 2
  Ers = {er1, er2}
  Timers = {"fallback", "ctimeout"}
  Timeout <- HalfSeconds
  PerSecond = 2
  MaxDelay = 1
  Parts = {"stages", "refused", "timers"}
SYMMETRY AlikeErs
INVARIANTS
  StagesTypeOK DoubleChecked OnTime
PROPERTIES
  StagesInTurn RefusedOnlyExhausted StaysListed
