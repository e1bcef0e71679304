\* One link: frames are told apart by their sequence, one payload is too long,
\* and the clock and the sequence numbers end at MaxU64.
SPECIFICATION FairLinkSpec
CONSTANTS
  MaxU64 = 4
  MaxTimeouts = 2
  logon_timeout_ticks = 1
  heartbeat_timeout_ticks = 1
  None = None
  Frames = {a}
  Oversize = {big}
  capacity = 2
INVARIANTS
  SessionInv
  RetransmitInv
  DeliveredIsPrefixOfLog
PROPERTIES
  TimeoutsAreNeverEarly
  RefusalIsClean
  WaitingEnds
  RetainedIsDelivered
