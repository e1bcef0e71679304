SPECIFICATION EngineFairSpec
CONSTANTS
  First = 1
  MaxSeq = 3
  Capacity = 1
  Batch = 2
  ok = ok
  fatal = fatal
  Payloads = {ok, fatal}
  Fatal = {fatal}
  MaxLives = 2
  EVENTS = 1
INVARIANTS
  JournalInv
  CompleteMeansPersisted
  StatusLoadsAgree
  EngineInv
  SnapshotIsDurable
PROPERTIES
  RetryIsAdmitted
  ClosedIsResolved
  AcceptedBecomesDurable
CHECK_DEADLOCK FALSE
