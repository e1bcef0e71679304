SPECIFICATION FairSpec
CONSTANTS
  SHARDS = 2
  InstrumentIds <- MCInstrumentIds
  COMMAND_QUEUE = 1
  EVENT_QUEUE = 1
  MaxSequence = 3
  MaxAccepted = 3
INVARIANTS
  DeliveryIsExact
PROPERTIES
  ShardIsIndependent
CHECK_DEADLOCK FALSE
