CONSTANTS
  Handlers = {scan_poll, retry}
  Steady = {scan_poll}
  Delays = {0, 2}
  MaxTimeouts = 2
  MaxCalls = 1
  Events = {assoc, deauth}
  QueueLen = 3
  Budget = 2
SPECIFICATION EloopFairSpec
INVARIANTS TimeoutsSorted EventsExact
PROPERTIES TimeoutFires JobsServed
CHECK_DEADLOCK FALSE
