SPECIFICATION FairSpec
CONSTANTS
  Conns = {c1, c2}
  FDs = {f1}
  NoConn = NoConn
  NoFD = NoFD
  Shell = Shell
  Free = Free
  Commands <- AllCommands
  MaxStarts = 1
  MaxCmds = 1
  MaxChunk = 1
  SendBuffer = 1
PROPERTIES
  StopReturns
  StopEndsOthers
  GoneIsReaped
CHECK_DEADLOCK FALSE
