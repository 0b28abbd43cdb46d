SPECIFICATION Spec
CONSTANTS
  Ports = {8518, 9000}
  DefaultPort = 8518
  Binds = {loop, lan}
  Loopback = loop
  Exes = {e1, e2}
  Scripts = {s1}
  Modes = {"upgrade"}
  None = none
SYMMETRY ServiceSymmetry
INVARIANTS
  UpgradeAgrees
