SPECIFICATION Spec
CONSTANTS
  MaxBody = 2
  MaxBuffer = 2
  MaxCapture = 2
  Chunk = 2
  MaxText = 4
CHECK_DEADLOCK FALSE
INVARIANTS TypeOK UnmarkedIsWhole DeclaredIsWhole CompleteIsWhole
