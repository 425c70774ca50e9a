CONSTANTS
  Tasks = {t1, t2, w}
  Sleepers = {t1, t2}
  Idents = {i1}
  NoThread = NoThread
  PendingMax = 1
  Timo = 2
  Quantum = 1
  MaxDepth = 2
  MaxSem = 1
  MaxLate = 1
  TickMod = 64
  MsPerSec = 4
SPECIFICATION SleepFairSpec
INVARIANTS SleepInv
PROPERTIES WindowCovered FiredLeaves 
CHECK_DEADLOCK FALSE
