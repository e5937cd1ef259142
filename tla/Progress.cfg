CONSTANTS
  Modules = {inventory}
  Budget = 2
  Routes = {events, inventories, assessments}
  MaxEpoch = 5
  Critical = {c1, c2, c3}
  Bulk = {b1, b2, b3}
  Scanning = {m1, m2}
  MaxCapacity = 2
SPECIFICATION ProgressSpec
INVARIANTS AppliedIsInForce ReturnsRightly OneOutage
PROPERTIES  AskedAgainIsStarted AnswersStand SlotsAreKept AgentMovesOn 
CHECK_DEADLOCK FALSE
