SPECIFICATION FairSpec
CONSTANTS
  Calls = {q1, q2}
  MaxCrashes = 1
  MaxFaults = 2
CHECK_DEADLOCK FALSE
INVARIANTS TypeOK CalmIsSafe TornByFailureOnly
PROPERTIES PairSettles
