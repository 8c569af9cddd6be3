CONSTANTS
  Requests = 4
  InitialDevices = 2
  MaxDevices = 2
  Workloads <- SerialOrLogins
  Checker = {c1}
  NoVersion = NoVersion
  RedisMayFail = FALSE
SPECIFICATION FairSpec
INVARIANTS NoOrphans RevokedAll LockOwned LoginsEvictOnlySurplus
PROPERTIES RevocationOutdatesAccess KeepsSessions LockFreed
CHECK_DEADLOCK FALSE
