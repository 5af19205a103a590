SPECIFICATION RoomFairSpec
CONSTANTS
  Conns = {c1, c2}
  FDs = {f1, f2}
  NoConn = NoConn
  NoFD = NoFD
  Shell = Shell
  Free = Free
  Commands <- NamedCommands
  MaxStarts = 1
  MaxCmds = 2
  MaxChunk = 1
  SendBuffer = 1
PROPERTIES
  EveryMemberHears
CHECK_DEADLOCK FALSE
