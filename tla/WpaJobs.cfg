CONSTANTS
  Callers = {c1, c2}
  Jobs = {j1, j2, j3}
  Polls = 2
  NoJob = NoJob
SPECIFICATION FairSpec
INVARIANTS HandOver
PROPERTIES RunsOnce CallReturns EveryJobFreed
CHECK_DEADLOCK FALSE
