SPECIFICATION FairSpec
CONSTANTS
  Waiters = {w1, w2, w3}
  Timed = {w3}
  MaxRounds = 3
INVARIANTS CvInv
PROPERTIES WaitersReturn
CHECK_DEADLOCK FALSE
