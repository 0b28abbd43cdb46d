SPECIFICATION Spec
CONSTANTS
  Rounds = {q1, q2}
  Other = other
  Packets = 2
  Gap = 1
  Timeout = 2
  InFlight = 1
  Kinds = {"raw", "dgram", "helper", "tcp"}
  MaxTime = 6
  Warm = 3
SYMMETRY EchoSymmetry
INVARIANTS
  OwnSamples
  NoFalseLoss
  EndsInTime
CHECK_DEADLOCK FALSE
