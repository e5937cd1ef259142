CONSTANTS
  Releases = {1, 2}
  Offers <- RootOffers
  MaxTime = 1
  MaxStops = 1
SPECIFICATION Spec
PROPERTIES TrustNeverLowered
CHECK_DEADLOCK FALSE
