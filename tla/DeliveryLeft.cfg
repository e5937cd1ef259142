CONSTANTS
  MaxSeq = 3
  MaxBatch = 3
  Widest = 4
  PlatformMost = 2
  QuarantineFails = TRUE
  MaxFaults = 1
  MaxRestarts = 0
  MaxExpired = 0
SPECIFICATION Spec
PROPERTIES EveryRecordSettles
CHECK_DEADLOCK FALSE
