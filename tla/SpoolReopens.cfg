CONSTANTS
  MaxSeq = 2
  SegmentFrames = 1
  MaxBatch = 2
  MaxRead = 2
  Limit = 7
  MaxCrashes = 2
  MaxFaults = 0
  MaxDamage = 0
  MaxVanished = 0
  MaxAged = 2
SPECIFICATION Spec
INVARIANTS CountedOnce
PROPERTIES Opens
