CONSTANTS
  Attempt = {a1, a2}
  Key = {"email"}
  KeysOf <- SameEmail
  LoginMaxAttempts = 2
  LoginWindow = 2
  MaxFailed = 3
  Lockout = 4
  MaxInside = 2
  Accounts <- Member
  RedisMayFail = FALSE
SPECIFICATION LoginSpec
INVARIANT LockoutAfterMaxFailures
CHECK_DEADLOCK FALSE
