CONSTANTS
  h1 = h1
  h2 = h2
  consumer = consumer
  heartbeat = heartbeat
  Flusher = {consumer, heartbeat}
  Handler = {h1, h2}
  MaxPending = 2
  BatchSize = 2
  MaxEvents = 3
  Streams <- MCStreams
  FirstModes = {"single_channel", "per_user_channels"}
  Budget = 3
SYMMETRY Symmetry
SPECIFICATION Spec
INVARIANTS TypeOK AuditTruthful DurationExplained FlagExplained
CHECK_DEADLOCK FALSE
