SPECIFICATION FairSpec
CONSTANTS
  a = a
  b = b
  c = c
  d = d
  Apps = {a}
  Callers <- MCCallers
  MaxChange = 1
  Flags <- MCFlags
  Asked <- MCAsked
  MaxRequests = 3
  MaxGeneration = 0
  MaxEdits = 2
  Removed = {}
  Edited = {a}
  Faults = {}
CHECK_DEADLOCK FALSE
PROPERTY ChangesAreRead
