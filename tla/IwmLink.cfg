CONSTANTS
  QMax = 2
SPECIFICATION FairSpec
INVARIANTS RunningAlive ScanFlagTrue
PROPERTIES  ScanCompletes
CHECK_DEADLOCK FALSE
