SPECIFICATION HotSpec
CONSTANTS
  o = o
  w = w
  p = p
  r = r
  m = m
  noThread = noThread
  a = a
  b = b
  z = z
  Apps <- MCApps
  Threads <- MCThreads
  Owner <- o
  Main <- m
  Watcher <- w
  Worker <- p
  Picser <- r
  Watchers = {w}
  NoThread <- noThread
  Capacity = 4
  MaxIds = 2
  MaxSnapshotIds = 2
  MaxAttempts = 2
  MaxGen = 5
  MaxOps <- NoHotAdd
  Batches <- HotBatches
  NestedCommands <- Snapshots
  QueueEnabled = TRUE
  StaleFallback = FALSE
  LatchedFirst = FALSE
  CompatApps = {a}
  Edits <- AddTwo
  MaxEdits = 3
CHECK_DEADLOCK FALSE
INVARIANTS
  HotTypeOK
  PackageFollowsConfig
  ReadyIsPrepared
  GenerationNamesSnapshot
