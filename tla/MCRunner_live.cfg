SPECIFICATION FairSpec
CONSTANTS
  Names = {n1}
  Addrs = {a1}
  NoAddr = noaddr
  MaxRows = 1
  Admins = {h1, h2}
  Main = main
  LoopIds = {l1, l2}
  NoLoop = noloop
  NoCfg = nocfg
  Free = free
  Stale = stale
  DemoName = n1
  DemoAddr = a1
  Faults = FALSE
  GraceElapses = FALSE
PROPERTIES
  ReloadEnds
  StoppedLoopsExit
  StopCompletes
