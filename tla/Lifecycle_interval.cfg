SPECIFICATION Spec
CONSTANTS
  Files <- LoadedFiles
  MaxLoads = 3
CHECK_DEADLOCK FALSE
INVARIANT RefusedNotFatal
