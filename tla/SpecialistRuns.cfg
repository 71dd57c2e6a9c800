SPECIFICATION Spec
CONSTANTS
  LastAttempt = 2
  Kinds = {1, 2}
  Discovery <- MCDiscovery
  Modes = {"ACTIVE", "DISABLED"}
  Unreserved = {"DISABLED"}
INVARIANTS IInv  RowMatchesAnalysis CompleteIsWhole
PROPERTIES ImplementsLedger
CHECK_DEADLOCK FALSE
