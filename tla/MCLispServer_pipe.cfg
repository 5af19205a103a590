SPECIFICATION SessionSpec
CONSTANTS
  Conns = {c1}
  FDs = {f1}
  NoConn = NoConn
  NoFD = NoFD
  Shell = Shell
  Free = Free
  Commands <- AllCommands
  MaxStarts = 1
  MaxCmds = 2
  MaxChunk = 1
  SendBuffer = 9
INVARIANT PeerCannotKill
CHECK_DEADLOCK FALSE
