SPECIFICATION FairSpec
CONSTANTS
  r1 = r1
  NoScan = NoScan
  Replicas = {r1}
  SchedulerEnabled = {r1}
  LOCK_TTL = 3
  MAX_INVESTIGATIONS = 2
  Faults = TRUE
INVARIANT OnlyExposedOverlap
INVARIANT LockInv
PROPERTY OwnKeyOnly
PROPERTY ImplementsMutex
PROPERTY LockFreed
PROPERTY CancelDrains
