SPECIFICATION ChatSession
CONSTANTS
  Conns = {c1, c2}
  FDs = {f1, f2}
  NoConn = NoConn
  NoFD = NoFD
  Shell = Shell
  Free = Free
  Commands <- AllCommands
  MaxStarts = 1
  MaxCmds = 0
  MaxChunk = 2
  SendBuffer = 2
  MaxChats = 0
  Names = {c1, c2}
SYMMETRY Symmetric
INVARIANTS
  ClientTypeOK
  NeverRefused
  PromptIsNamed
  HandshakeFailsByBroadcasts
  OrderedDelivery
CHECK_DEADLOCK FALSE
