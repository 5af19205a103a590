SPECIFICATION RoomSpec
CONSTANTS
  Conns = {c1, c2}
  FDs = {f1}
  NoConn = NoConn
  NoFD = NoFD
  Shell = Shell
  Free = Free
  Commands <- RoomCommands
  MaxStarts = 1
  MaxCmds = 3
  MaxChunk = 2
  SendBuffer = 9
SYMMETRY Symmetric
INVARIANTS
  ChatAttribution
  OwnConnection
PROPERTY ImplementsRoom
CHECK_DEADLOCK FALSE
