SPECIFICATION FairSpec
CONSTANTS
  Files <- LoadedFiles
  MaxLoads = 3
CHECK_DEADLOCK FALSE
INVARIANTS TypeOK NoOrphanLoop LiveIsMetered
PROPERTIES LoopsEnd UsageFlushed
