SPECIFICATION Spec
CONSTANTS
  Requests = 3
  Apart = {}
  Workloads <- Callbacks
  FirstUsers <- Anyone
  MaxAttempts = 2
  Templates = {"verification", "welcome", "password_reset"}
  Workers = 2
  RedisMayFail = FALSE
INVARIANTS StateIsSingleUse
CHECK_DEADLOCK FALSE
