CONSTANTS
  Handler = {"h1", "h2"}
  INACTIVITY_DAYS = 1
  MaxOps = 4
  MaxTime = 4
SPECIFICATION FairSpec
INVARIANTS TypeOK LeaksAccounted WebhookAlive
PROPERTY AbandonedIsPurged
CHECK_DEADLOCK FALSE
