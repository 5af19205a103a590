SPECIFICATION Spec
CONSTANTS
  Kernels = {k1, k2}
  RootFS = rootfs
  Dirs = {rootfs, home}
  Names <- Users
  Root <- root
  NoName = NoName
  Passwords = {"p", "q"}
  Hash <- Sha256
  MaxLines = 2
INVARIANTS
  TypeOK
  EchoInShell
  NoLockoutByRaces
PROPERTIES
  ImplementsAccounts
