SPECIFICATION Spec
CONSTANTS
  Events = {e1, e2}
  Reporters = {r1, r2}
  MaxRetries = 2
  MaxAge = 4
  MaxClock = 0
  MaxCrashes = 0
  MaxFaults = 0
  MaxUnclear = 0
SYMMETRY Symmetry
CHECK_DEADLOCK FALSE
PROPERTIES PersistedForRetry
