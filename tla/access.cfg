CONSTANTS
  Writer = {w1, w2}
  Checker = {c1, c2}
  NoVersion = NoVersion
  Attempt = {a1, a2}
  Key = {"email"}
  KeysOf <- SameEmail
  LoginMaxAttempts = 2
  LoginWindow = 2
  MaxFailed = 2
  Lockout = 2
  MaxInside = 2
  Accounts <- Anyone
  RedisMayFail = TRUE
SPECIFICATION AccessSpec
INVARIANTS CacheCoherent FirstRevocationIsForever RevocationRetires LockoutWhenAlone CountersExpire BurstBounded
PROPERTIES EventuallyCoherent InactiveLosesCache StandingLockStays
CHECK_DEADLOCK FALSE
