SPECIFICATION Spec
CONSTANTS
  Ports = {8518, 9000}
  DefaultPort = 8518
  Binds = {loop, lan}
  Loopback = loop
  Exes = {e1, e2}
  Scripts = {s1}
  Modes = {"restart", "upgrade", "rough"}
  None = none
SYMMETRY ServiceSymmetry
INVARIANTS
  TypeOK
  RunningAnswers
  RuleFollows
  RunsRegistered
PROPERTIES
  InstallStarts
