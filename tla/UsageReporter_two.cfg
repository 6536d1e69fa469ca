SPECIFICATION FairSpec
CONSTANTS
  Events = {e1}
  Reporters = {r1, r2}
  MaxRetries = 2
  MaxAge = 4
  MaxClock = 1
  MaxCrashes = 0
  MaxFaults = 0
  MaxUnclear = 0
CHECK_DEADLOCK FALSE
PROPERTIES NoReturn SharedCustody Settles StopHonoured
