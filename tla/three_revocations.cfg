CONSTANTS
  Writer = {w1, w2, w3}
  Checker = {}
  NoVersion = NoVersion
  RedisMayFail = FALSE
SPECIFICATION VersionSpec
INVARIANT RevocationRetires
CHECK_DEADLOCK FALSE
