CONSTANTS
  Requests = 2
  InitialDevices = 1
  MaxDevices = 2
  Workloads <- RacingRefreshes
  Checker = {}
  NoVersion = NoVersion
  RedisMayFail = FALSE
SPECIFICATION Spec
INVARIANT OneSuccessor
CHECK_DEADLOCK FALSE
