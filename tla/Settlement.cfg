CONSTANTS
  MaxSeq = 3
  MaxBatch = 3
  Widest = 4
  PlatformMost = 2
  QuarantineFails = FALSE
  MaxFaults = 1
  MaxRestarts = 1
  MaxExpired = 0
  MaxSettled = 5
SPECIFICATION SettlementSpec
INVARIANTS ArrivesInOrder LedgerIsRead
PROPERTIES SettlesInTheEnd SettlesTruly ImplementsAccount
CHECK_DEADLOCK FALSE
