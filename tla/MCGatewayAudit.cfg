\* Three requests, failing writes, lost answers and a restart.
SPECIFICATION FairAuditSpec
CONSTANTS
  MaxEvents = 3
  MaxClock = 7
  MaxRestarts = 1
  WriteAttempts = 3
  Buffer = 2
CHECK_DEADLOCK FALSE
INVARIANTS
  LogIsSound
  RecordedOrCounted
PROPERTIES
  QueueDrains
