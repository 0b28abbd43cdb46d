SPECIFICATION FairSpec
CONSTANTS
  Loops = {l1, l2}
  FlushLoop = flush
  Closer = close
  MaxTime = 1
  EditTime = 1
  BatchSize = 2
  RingCap = 1
  Day = 1
  Edits = {TRUE}
  Faults = TRUE
  None = none
PROPERTIES
  LogSpec
  NeverSits
