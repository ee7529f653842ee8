SPECIFICATION FairAuditSpec
CONSTANTS
  Events = {e1, e2, e3}
  NoEvent = NoEvent
  QueueSize = 1
  MaxFailures = 2
  MayClose = TRUE
CHECK_DEADLOCK FALSE
INVARIANTS
  AuditTypeOK
  CloseFlushes
  DroppedNotOverstated
PROPERTY
  QueuedIsSettled
