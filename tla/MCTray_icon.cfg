SPECIFICATION TraySpec
CONSTANTS
  Ports = {8518, 9000}
  DefaultPort = 8518
  Binds = {loop}
  Loopback = loop
  Exes = {e1}
  Scripts = {s1}
  Modes = {"restart", "menu"}
  Targets = {t1}
  None = none
INVARIANTS
  TrayTypeOK
  

  
