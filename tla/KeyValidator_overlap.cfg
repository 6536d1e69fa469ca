SPECIFICATION Spec
CONSTANTS
  Handlers = {h1, h2}
  Keys = {k1}
  Blank = blank
  Configured = {}
  FileKeys = {}
  EnvKeys = {}
  CacheTTL = 2
  QueryTime = 1
  Cap = 4
  Cleanups = FALSE
SYMMETRY Symmetry
CHECK_DEADLOCK FALSE
INVARIANTS DefinitivelyInvalid
