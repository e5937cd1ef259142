CONSTANTS
  Releases = {1, 2}
  Offers <- SomeOffers
  MaxTime = 1
  MaxStops = 1
SPECIFICATION Spec
INVARIANTS  EndsAsRecorded
PROPERTIES InstallationEnds 
CHECK_DEADLOCK FALSE
