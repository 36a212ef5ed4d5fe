SPECIFICATION Spec
CONSTANTS
  game = game
  other = other
  owner = owner
  loader = loader
  asker = asker
  Apps <- MCApps
  Contents = {{other}}
  Workers = {owner}
  Loaders = {loader}
  Askers = {}
  Faults = {}
  MaxGeneration = 1
  MaxLoads = 2
  MaxInjections = 0
  MaxFaults = 0
INVARIANT ChangesAreDue
CHECK_DEADLOCK FALSE
