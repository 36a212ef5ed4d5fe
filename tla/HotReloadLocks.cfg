SPECIFICATION FairHotSpec
CONSTANTS
  o = o
  w = w
  p = p
  r = r
  m = m
  noThread = noThread
  a = a
  b = b
  z = z
  Apps <- MCApps
  Threads <- MCThreads
  Owner <- o
  Main <- m
  Watcher <- w
  Worker <- p
  Picser <- r
  Watchers = {w}
  NoThread <- noThread
  Capacity = 4
  MaxIds = 2
  MaxSnapshotIds = 2
  MaxAttempts = 1
  MaxGen = 4
  MaxOps <- OneHotAdd
  Batches <- HotBatches
  NestedCommands <- Snapshots
  QueueEnabled = TRUE
  StaleFallback = TRUE
  LatchedFirst = TRUE
  CompatApps = {a}
  Edits <- AddRemove
  MaxEdits = 1
CHECK_DEADLOCK FALSE
INVARIANT NoDeadlock
PROPERTIES
  CallsReturn
  UsesQueue
