SPECIFICATION FairSpec
CONSTANTS
  Conns = {c1, c2}
  FDs = {f1}
  NoConn = NoConn
  NoFD = NoFD
  Shell = Shell
  Free = Free
  Commands <- NamedCommands
  MaxStarts = 1
  MaxCmds = 1
  MaxChunk = 1
  SendBuffer = 1
PROPERTY StopEndsHandlers
CHECK_DEADLOCK FALSE
