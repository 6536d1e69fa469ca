SPECIFICATION FairSpec
CONSTANTS
  Handlers = {h1, h2}
  Keys = {k1, admin, filed}
  Blank = blank
  Configured = {admin}
  FileKeys = {filed}
  EnvKeys = {}
  CacheTTL = 1
  QueryTime = 1
  Cap = 3
  Cleanups = TRUE
CHECK_DEADLOCK FALSE
INVARIANTS TypeOK CacheFresh UncrossedIsDefinitive
PROPERTIES AcceptedWasListed RevocationTakesEffect
