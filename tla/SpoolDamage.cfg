CONSTANTS
  MaxSeq = 3
  SegmentFrames = 2
  MaxBatch = 2
  MaxRead = 2
  Limit = 7
  MaxCrashes = 1
  MaxFaults = 0
  MaxDamage = 1
  MaxVanished = 1
  MaxAged = 0
SPECIFICATION Spec
INVARIANTS OnlyDamageIsLost ReadsOnwards
