SPECIFICATION FairSpec
CONSTANTS
  game = game
  other = other
  owner = owner
  loader = loader
  asker = asker
  Apps <- MCApps
  Contents = {{other}}
  Workers = {owner}
  Loaders = {loader}
  Askers = {asker}
  Faults = {"grow", "user", "status"}
  MaxGeneration = 1
  MaxLoads = 1
  MaxInjections = 1
  MaxFaults = 1
PROPERTY Announced
CHECK_DEADLOCK FALSE
