CONSTANTS
  MaxNodes = 2
  APs = {a1}
  BE = be
  Rings = {be, vo}
  Count = 3
  HiMark = 1
  LoMark = 1
  MaxMgt = 1
  MaxSnd = 1
  MaxResets = 1
SPECIFICATION FairSpec
INVARIANTS   RingSound NoStall
PROPERTIES BackpressureEnds
CHECK_DEADLOCK FALSE
