SPECIFICATION FairSpec
CONSTANTS
  a = a
  b = b
  c = c
  Apps <- MCApps
  Capacity = 2
CHECK_DEADLOCK FALSE
INVARIANTS
  Compensated
  QueuedIsWanted
  EffectIsTold
PROPERTY Presented
