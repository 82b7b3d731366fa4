CONSTANTS
  Handler = {"h1"}
  INACTIVITY_DAYS = 1
  MaxOps = 3
  MaxTime = 2
SPECIFICATION Spec
PROPERTY CreateGivesWebhook
CHECK_DEADLOCK FALSE
