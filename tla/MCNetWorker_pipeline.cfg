CONSTANTS
  PENDING_MAX = 3
  FLUSH_BATCH = 2
  DRAIN_BATCH = 2
  MaxEvents = 4
  Poison <- PoisonedEvents
SPECIFICATION FairSpec
INVARIANTS TypeOK LossExplained ResendExplained
PROPERTIES BufferSpec BufferDrains ConsumerKeepsUp
CHECK_DEADLOCK FALSE
