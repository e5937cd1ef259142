CONSTANTS
  MaxSeq = 3
  SegmentFrames = 2
  MaxBatch = 2
  MaxRead = 2
  Limit = 7
  MaxCrashes = 2
  MaxFaults = 1
  MaxDamage = 0
  MaxVanished = 0
  MaxAged = 0
SPECIFICATION Spec
INVARIANTS ReceiptIsDurable BudgetIsExact
