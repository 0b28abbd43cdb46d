SPECIFICATION Spec
CONSTANTS
  Names = {n1, n2}
  Addrs = {a1}
  NoAddr = noaddr
  MaxRows = 2
  Admins = {h1}
  Main = main
  LoopIds = {l1, l2}
  NoLoop = noloop
  NoCfg = nocfg
  Free = free
  Stale = stale
  DemoName = n1
  DemoAddr = a1
  Faults = FALSE
  GraceElapses = TRUE
SYMMETRY ActorSymmetry
INVARIANTS
  StoppedMeansGone
