SPECIFICATION Spec
CONSTANTS
  worker = worker
  pics = pics
  Publishers <- MCPublishers
  MaxPublish = 2
  MaxRemovals = 0
  MaxCrashes = 1
  Faults = {}
CHECK_DEADLOCK FALSE
PROPERTY DyingKeepsReadable
