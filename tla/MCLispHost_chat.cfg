SPECIFICATION ChatHostSpec
CONSTANTS
  Conns = {c1, c2}
  FDs = {f1, f2}
  NoConn = NoConn
  NoFD = NoFD
  Shell = Shell
  Free = Free
  Commands <- AllCommands
  MaxStarts = 1
  MaxCmds = 0
  MaxChunk = 2
  SendBuffer = 1
  MaxChats = 1
  Names = {c1}
INVARIANTS
  NeverRefused
  ExitJoins
PROPERTIES
  StopFreesClients
  ExitEnds
  FailedCommandReturns
CHECK_DEADLOCK FALSE
