SPECIFICATION CardSpec
CONSTANTS
  Systems = {"other"}  Devices = {"plain"}
  StatusEvery = 1
  ResetCycle = 1
  JobsLate = FALSE
  Flaky = FALSE
  MaxJobs = 2
INVARIANTS ResetPerformed
