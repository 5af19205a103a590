SPECIFICATION ChatFairSpec
CONSTANTS
  Conns = {c1}
  FDs = {f1}
  NoConn = NoConn
  NoFD = NoFD
  Shell = Shell
  Free = Free
  Commands <- AllCommands
  MaxStarts = 1
  MaxCmds = 0
  MaxChunk = 2
  SendBuffer = 99
  MaxChats = 1
  Names = {c1}
PROPERTY ExitReturns
CHECK_DEADLOCK FALSE
