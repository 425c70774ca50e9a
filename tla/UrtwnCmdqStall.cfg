CONSTANTS
  Producers = {p1, p2}
  Count = 3
  MaxCmds = 3
SPECIFICATION FairSpec
PROPERTIES CommandsRunUnlessFull
CHECK_DEADLOCK FALSE
