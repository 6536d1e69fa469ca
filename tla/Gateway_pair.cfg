SPECIFICATION Spec
CONSTANTS
  Nobody = Nobody
  Requests = {q1, q2}
  Wallets = {w1}
  Keys = {k1, k2}
  MasterKeys = {k2}
  BackendStatuses = {200, 402}
  Accounts = {w1, k1}
  X402Enabled = TRUE
  MinBalance = 1
  MaxCost = 2
  Funds = {0, 1}
  MaxTopUps = 1
  MaxPosts = 2
SYMMETRY Symmetry
INVARIANTS TypeOK OverdraftBounded OneBill BilledWasServed Gated CountedOnce
CHECK_DEADLOCK FALSE
