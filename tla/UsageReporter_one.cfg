SPECIFICATION Spec
CONSTANTS
  Events = {e1, e2}
  Reporters = {r1}
  MaxRetries = 2
  MaxAge = 4
  MaxClock = 3
  MaxCrashes = 1
  MaxFaults = 1
  MaxUnclear = 1
SYMMETRY Symmetry
CHECK_DEADLOCK FALSE
INVARIANTS TypeOK OnePlace PostsBounded
PROPERTIES KeepsLedger
