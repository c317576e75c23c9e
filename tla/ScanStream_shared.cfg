SPECIFICATION FairSpec
CONSTANTS
  c1 = c1
  c2 = c2
  Clients = {c1, c2}
  MaxScans = 1
  MaxEvents = 1
  Stops = FALSE
  Faults = FALSE
PROPERTY EveryFollowerEnds
