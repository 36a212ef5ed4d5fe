SPECIFICATION Spec
CONSTANTS
  worker = worker
  pics = pics
  Publishers <- MCPublishers
  MaxPublish = 3
  MaxRemovals = 1
  MaxCrashes = 1
  Faults = {"lock", "stage", "write", "mark", "undo", "move"}
SYMMETRY Symmetric
CHECK_DEADLOCK FALSE
INVARIANTS
  FailedKeepsPrevious
  RemovedStaysHidden
  MemoIsHonest
