CONSTANTS
  Agents = {a, b}
  Sets = {s, t}
  MaxKeys = 2
  MaxIssued = 2
  MaxGenerations = 2
  MaxReplaced = 2
  MaxFaults = 1
SPECIFICATION Spec
INVARIANTS CredentialKept ReplacedIsKept RestartTrustsTheSame
PROPERTIES SentIsAskedAgain
CHECK_DEADLOCK FALSE
SYMMETRY Symmetry
