SPECIFICATION Spec
CONSTANTS
  Requests = 4
  Apart <- AllApart
  Workloads <- Encounters
  FirstUsers <- Anyone
  MaxAttempts = 2
  Templates = {"verification", "welcome", "password_reset"}
  Workers = 2
  RedisMayFail = FALSE
INVARIANTS SentMeansSent NoRowLeftPending SentOnce OneCodeOneGrant OneGrantOneChange  VerifiedOnce SessionsNeedVerification StateUsedOnce
PROPERTIES AccountNotReplaced KeepsMails
CHECK_DEADLOCK FALSE
