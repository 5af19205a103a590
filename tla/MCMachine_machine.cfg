SPECIFICATION MachineSpec
CONSTANTS
  Terminals = {t1, t2}
  Build = Build
  RootFS = RootFS
  Modules = Modules
  Gone = Gone
  NoFile = NoFile
  MaxBuilds = 2
INVARIANTS
  MachineTypeOK
  PanicLoggedInRootfs
  ZeroMeansShutdown
  FreshImageBoots
  OrphanTakesNoCommand
PROPERTIES
  EofEnds
  ImplementsRunlevels
CHECK_DEADLOCK FALSE
