CONSTANTS
  Requests = 2
  InitialDevices = 2
  MaxDevices = 2
  Workloads <- RefreshMeetsLogin
  Checker = {}
  NoVersion = NoVersion
  RedisMayFail = FALSE
SPECIFICATION Spec
INVARIANT NoOrphans
CHECK_DEADLOCK FALSE
