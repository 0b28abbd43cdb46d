SPECIFICATION Spec
CONSTANTS
  Loops = {l1, l2}
  FlushLoop = flush
  Closer = close
  MaxTime = 4
  EditTime = 2
  BatchSize = 2
  RingCap = 2
  Day = 2
  Edits = {TRUE, FALSE}
  Faults = FALSE
  None = none
SYMMETRY LoopSymmetry
INVARIANTS
  TypeOK
  RingBacked
  RecorderIntact
  RingSorted
PROPERTIES
  OnlyFlushLoopLoses
