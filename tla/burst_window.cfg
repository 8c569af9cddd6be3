CONSTANTS
  Attempt = {a1}
  Key = {"email"}
  KeysOf <- SameEmail
  LoginMaxAttempts = 2
  LoginWindow = 2
  MaxFailed = 3
  Lockout = 4
  MaxInside = 1
  Accounts <- Member
  RedisMayFail = FALSE
SPECIFICATION LoginSpec
INVARIANT AtMostMaxPerWindow
CHECK_DEADLOCK FALSE
