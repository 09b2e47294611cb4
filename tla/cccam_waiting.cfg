SPECIFICATION AnswersSpec
CONSTANTS
  Parts = {"cccam"}
  a = a  b = b  c = c  d = d
  e1 = e1  e2 = e2  c1 = c1  c2 = c2
  Services = {a, b, c, d}
  LimitOf <- FourLimits
  Limit = 2
  MaxSlots = 4
  Hold = 2
  Cooldowns = {TRUE, FALSE}
  NoService = NoService
  EcmPids = {t1, t2}
  Modes = {0, 1}
  MaxStatus = 1
  NoPid = NoPid
  Requests = {1, 2}
  Ecm <- TwoEcms
  Cards = {c1, c2}
  Serves <- OneServesBoth
  MaxFlag = 2
  NoCard = NoCard
  NoRequest = NoRequest
  Checkers = {t1, t2}
  WrongCws = {1}
  Period = 3
  Delay = 1
  FallbackTime = 1
  KeepTime = 6
  CleanTime = 0
  AllowBad = TRUE
  Sensitive = TRUE
  MaxRepeat = 0
  MaxAge = 7
  MaxSlow = 1
SYMMETRY Alike
PROPERTIES WaitingProcessed
