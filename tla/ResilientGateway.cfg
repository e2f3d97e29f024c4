\* Two callers, three attempts each, one breaker.
CONSTANTS
  c1 = c1  c2 = c2  c3 = c3
  Calls = {c1, c2}
  Threshold = 2
  Reset = 3
  MaxAttempts = 3
  BaseDelay = 1
  MaxDelay = 2
  MaxElapsed = 3
  Timeout = 2
SPECIFICATION FairSpec
INVARIANTS OpenExactlyAfterStreak
PROPERTIES Recovers RefusedOnlyAfterRecentFailure NoLateAttempt
CHECK_DEADLOCK FALSE
