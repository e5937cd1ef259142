CONSTANTS
  Limits = {20, 32}
  Reserved = 1
  Sizes = {2, 8}
  MaxLedger = 1
  Kinds = {packages}
  Digests = {x, y}
  Skew = 1
  Refresh = 2
  MaxClock = 3
  MaxRegressions = 1
  MaxStops = 2
  Tests <- SomeTests
  Sources <- SomeSources
  MaxChanges = 1
  MaxSpaces = 2
  Ports = {"p"}
  Sockets <- SomeSockets
  MaxTalks = 1
  Linger = 2
  MaxFlows = 1
  MaxBoot = 2
  MaxLosses = 1
  Names = {1, 2}
  Inodes = {1, 2, 3, 4}
  Hosts <- SomeHosts
  MaxDepth = 3
  Watchers = {TRUE, FALSE}
  Interleaved = TRUE
  MaxEvents = 2
  MaxWritten = 3
  MaxRounds = 1
  MaxDamage = 1
  MaxSeconds = 15
SPECIFICATION HostSpec
INVARIANTS RoomLeft LatestIsHeld  ToldIsTrue ToldIsHeld BaselineIsTrue NewestIsHighest
CHECK_DEADLOCK FALSE
