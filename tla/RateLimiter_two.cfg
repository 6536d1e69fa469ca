SPECIFICATION Spec
CONSTANTS
  Requests = {q1, q2}
  Users = {u1, u2}
  Kinds <- TwoKinds
  Limit <- TwoLimits
  Duration <- TwoDurations
  MaxTokens = 2
  MaxClock = 3
SYMMETRY Symmetry
CHECK_DEADLOCK FALSE
INVARIANTS TypeOK OvershootBounded
PROPERTIES WindowsKept
