SPECIFICATION Spec
CONSTANTS
  o = o
  w = w
  p = p
  noThread = noThread
  a = a
  b = b
  z = z
  Apps <- MCApps
  Threads <- MCThreads
  Owner <- o
  Watchers = {w}
  NoThread <- noThread
  Capacity = 2
  MaxIds = 2
  MaxAttempts = 2
  MaxOps <- MCMaxOps
  Batches <- AllBatches
  NestedCommands <- Nested
CHECK_DEADLOCK FALSE
PROPERTY FallbackRunsPendingFirst
