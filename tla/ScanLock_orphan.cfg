SPECIFICATION Spec
CONSTANTS
  r1 = r1
  NoScan = NoScan
  Replicas = {r1}
  SchedulerEnabled = {}
  LOCK_TTL = 3
  MAX_INVESTIGATIONS = 1
  Faults = FALSE
INVARIANT NoOrphanLock
