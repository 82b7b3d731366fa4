CONSTANTS
  PENDING_MAX = 4
  FLUSH_BATCH = 2
  DRAIN_BATCH = 2
  MaxEvents = 3
  Poison <- NoPoison
SPECIFICATION Spec
INVARIANT NeverLosesAlert
CHECK_DEADLOCK FALSE
