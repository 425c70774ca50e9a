SPECIFICATION RxSpec
CONSTANTS
  SeqSpace = 5
  FragSpace = 4
  FirstSeq = 2
  MaxMsdus = 4
  MaxLen = 5
  HdrLen = 2
  Mtu = 4
INVARIANTS RxInv DeliveredInOrder DeliveredLength
CHECK_DEADLOCK FALSE
