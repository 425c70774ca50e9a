CONSTANTS
  Producers = {p1, p2}
  Count = 3
  MaxCmds = 6
SPECIFICATION FairSpec
INVARIANTS CmdqInv
PROPERTIES ImplementsCommands CommandsRun WaitReturns
CHECK_DEADLOCK FALSE
