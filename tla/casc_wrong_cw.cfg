SPECIFICATION PartsSpec
CONSTANTS
  q1 = q1  q2 = q2  q3 = q3  ecm1 = ecm1  ecm2 = ecm2
  Nodes = {n1, n2, n3}
  Walkers = {q1, q2}  MaxVersion = 1
  extra = extra  Collector = Collector  Nil = Nil
  Data <- Memory  TimeoutTime = 1  MaxTime = 2
  Parts = {"casc"}
  Threads = {}  Writers = {}  Readers = {}  Timeouts = FALSE
  Systems = {"other"}  Devices = {"plain"}  StatusEvery = 1  ResetCycle = 0  JobsLate = FALSE  Flaky = FALSE  MaxJobs = 1
  Requests = {q1, q2, q3}
  Ecms = {ecm1, ecm2}
  Ecm <- TwoAndOne
  MaxPending = 3
  Protocols = {"newcamd", "camd35"}
  LoginMsgs = 1
  MsgIds = {7}
  Idxs = {8189}
  NoRequest = NoRequest
CHECK_DEADLOCK FALSE
SYMMETRY Symmetry
INVARIANTS CwForItsEcm
