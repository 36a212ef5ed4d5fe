SPECIFICATION FairSpec
CONSTANTS
  o = o
  w = w
  p = p
  noThread = noThread
  a = a
  b = b
  z = z
  Apps <- MCApps
  Threads <- MCThreads
  Owner <- o
  Watchers = {w}
  NoThread <- noThread
  Capacity = 4
  MaxIds = 2
  MaxAttempts = 2
  MaxOps <- MCMaxOps
  Batches <- MixedBatches
  NestedCommands <- Nested
CHECK_DEADLOCK FALSE
INVARIANT NothingLost
PROPERTIES
  EverythingSettles
  SweepSettles
