SPECIFICATION Spec
CONSTANTS
  Conns = {c1, c2}
  FDs = {f1, f2}
  NoConn = NoConn
  NoFD = NoFD
  Shell = Shell
  Free = Free
  Commands <- NamedCommands
  MaxStarts = 2
  MaxCmds = 1
  MaxChunk = 1
  SendBuffer = 9
SYMMETRY Symmetric
INVARIANTS
  TypeOK
  RestartSafe
  NoLeakedDescriptor
  OpenIsRegistered
PROPERTIES
  IterationStable
CHECK_DEADLOCK FALSE
