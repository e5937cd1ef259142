CONSTANTS
  MaxSeq = 2
  SegmentFrames = 1
  MaxBatch = 2
  MaxRead = 2
  Limit = 7
  MaxCrashes = 2
  MaxFaults = 0
  MaxDamage = 1
  MaxVanished = 0
  MaxAged = 0
SPECIFICATION Spec
INVARIANTS LeavesOnlySettled
