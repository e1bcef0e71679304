SPECIFICATION FairSpec
CONSTANTS
  N = 4
  Laps = 2
  a = a
  b = b
  Values <- MCValues
  Uninit = Uninit
  NoValue = NoValue
INVARIANTS
  SlotAccessIsSafe
  GrantedCapacityHolds
  IInv
PROPERTIES
  ImplementsFifo
  PublishedIsConsumed
CHECK_DEADLOCK FALSE
