SPECIFICATION Spec
CONSTANTS
  Requests = 2
  Apart = {}
  Workloads <- Registrations
  FirstUsers <- Anyone
  MaxAttempts = 2
  Templates = {"verification", "welcome", "password_reset"}
  Workers = 2
  RedisMayFail = FALSE
INVARIANTS ConflictAnswered
CHECK_DEADLOCK FALSE
