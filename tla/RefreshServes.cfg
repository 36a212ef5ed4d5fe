SPECIFICATION FairSpec
CONSTANTS
  a = a
  b = b
  c = c
  d = d
  Apps = {a, b}
  Callers <- MCCallers
  MaxChange = 1
  Flags <- MCFlags
  Asked <- MCAsked
  MaxRequests = 3
  MaxGeneration = 1
  MaxEdits = 1
  Removed = {a}
  Edited = {b}
  Faults = {"construct", "detach", "pass"}
CHECK_DEADLOCK FALSE
INVARIANTS
  OnePass
  NothingForgotten
PROPERTY Attended
