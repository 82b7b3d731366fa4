CONSTANTS
  Worker = {w1, w2}
  Hook = {h1}
  Owner = {o1}
  NORMAL_BACKLOG_CAP = 2
  MaxPuts = 4
SPECIFICATION FairSpec
INVARIANTS TypeOK BacklogSound Conservation LaneOrder
PROPERTIES UrgentFirst UrgentSettled MailboxSpec
CHECK_DEADLOCK FALSE
