SPECIFICATION FairSpec
CONSTANTS
  c1 = c1
  c2 = c2
  Clients = {c1, c2}
  MaxScans = 2
  MaxEvents = 1
  Stops = TRUE
  Faults = TRUE
INVARIANT TypeOK
INVARIANT OneScan
INVARIANT ActiveHasQueue
INVARIANT QueueWellFormed
PROPERTY SoleFollowerEnds
