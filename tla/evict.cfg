CONSTANTS
  Requests = 4
  InitialDevices = 2
  MaxDevices = 3
  Workloads <- RefreshesAndLogins
  Checker = {}
  NoVersion = NoVersion
  RedisMayFail = FALSE
SPECIFICATION Spec
INVARIANT EvictOnlySurplus
CHECK_DEADLOCK FALSE
