SPECIFICATION Spec
CONSTANTS
  manifest = manifest
  steam = steam
  first = first
  second = second
  Nobody = Nobody
  Keys = {manifest}
  Callers = {steam}
  Workers = {first, second}
  Capacity = 1
  Threshold = 1
  Answers = {"served", "absent", "down"}
  MaxJobs = 2
  MaxSessions = 2
INVARIANT
  OneWriter
CHECK_DEADLOCK FALSE
