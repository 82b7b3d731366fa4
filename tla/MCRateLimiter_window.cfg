CONSTANTS
  Key = {k1, k2}
  RATE_LIMIT = 2
  RATE_WINDOW = 4
  TENTH = 2
  MaxTime = 9
SPECIFICATION Spec
INVARIANTS TypeOK WindowRespected RefusedOnlyWhenBusy RetryAfterAccurate
