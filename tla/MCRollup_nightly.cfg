SPECIFICATION Spec
CONSTANTS
  Hour = 2
  Hot = 6
  Keep = 10
  HourlyFrom = 3
  Every = 1
  MaxGap = 2
  Shift = 0
  MaxSleep = 2
  MaxTime = 10
  Idle = idle
INVARIANTS
  TypeOK
  NoneMissed
  ChartComplete
PROPERTIES
  NoTruncation
