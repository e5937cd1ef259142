CONSTANTS
  Policies <- SomePolicies
  Files <- SomeFiles
  MaxExpired = 1
  MaxRestarts = 1
  MaxEntries = 2
  MaxBatch = 1
  MaxReadings = 2
  Revisions = {1, 2}
  Checked = {1}
  Digests = {"x", "y"}
  Skew = 1
  Refresh = 2
  MaxClock = 2
  MaxStops = 2
SPECIFICATION Spec
INVARIANTS NeverBelowApplied 
PROPERTIES   PolicyIsAssessed
CHECK_DEADLOCK FALSE
