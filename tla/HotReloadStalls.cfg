SPECIFICATION HotSpec
CONSTANTS
  o = o
  w = w
  p = p
  r = r
  m = m
  noThread = noThread
  a = a
  b = b
  z = z
  Apps <- MoreApps
  Threads <- MCThreads
  Owner <- o
  Main <- m
  Watcher <- w
  Worker <- p
  Picser <- r
  Watchers = {w}
  NoThread <- noThread
  Capacity = 4
  MaxIds = 1
  MaxSnapshotIds = 3
  MaxAttempts = 2
  MaxGen = 5
  MaxOps <- NoHotAdd
  Batches <- HotBatches
  NestedCommands <- Snapshots
  QueueEnabled = TRUE
  StaleFallback = FALSE
  LatchedFirst = TRUE
  CompatApps = {a}
  Edits <- Dense
  MaxEdits = 2
CHECK_DEADLOCK FALSE
INVARIANT NoDeadlock
