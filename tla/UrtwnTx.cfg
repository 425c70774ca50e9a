SPECIFICATION FairSpec
CONSTANTS
  Senders = {s1}
  NTx = 1
  ListCount = 2
  RingSize = 3
  MaxFrames = 3
  Failures = {"node", "key", "submit", "xfer", "stall"}
INVARIANTS TxDataInv 
PROPERTY TxReclaimed
CHECK_DEADLOCK FALSE
