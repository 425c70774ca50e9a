SPECIFICATION FairSpec
CONSTANTS
  Producers = {p1, p2, p3}
  Drainer = d
  Locked = TRUE
  MaxFrames = 2
INVARIANTS QueueInv
 
CHECK_DEADLOCK FALSE
