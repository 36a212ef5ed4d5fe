SPECIFICATION Spec
CONSTANTS
  a = a
  b = b
  q1 = q1
  q2 = q2
  w1 = w1
  w2 = w2
  o1 = o1
  nobody = nobody
  Apps <- MCApps
  Readers <- MCReaders
  Publishers <- MCPublishers
  Owner <- o1
  NoThread <- nobody
  MaxGeneration = 3
SYMMETRY MCSymmetry
CHECK_DEADLOCK FALSE
INVARIANT ResolutionIsSignalled
