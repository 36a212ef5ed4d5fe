SPECIFICATION FairSpec
CONSTANTS
  game = game
  other = other
  owner = owner
  loader = loader
  asker = asker
  Apps <- MCApps
  Contents = {{other}}
  Workers = {owner}
  Loaders = {loader}
  Askers = {}
  Faults = {"user", "guard", "retain", "offline", "status"}
  MaxGeneration = 2
  MaxLoads = 1
  MaxInjections = 0
  MaxFaults = 2
INVARIANTS
  Provenance
  WorkIsKept
PROPERTY Settles
CHECK_DEADLOCK FALSE
