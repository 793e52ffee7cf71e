SPECIFICATION Spec
CONSTANTS
  Pools = {"p1", "p2"}
  Roots = {"r1", "r2"}
  CommandLines <- MCCommandLines
  LogHeads <- MCLogHeads
INVARIANTS
  ReportsStand
  ZeroMeansVerified
PROPERTIES
  GoodInputsExitZero
CHECK_DEADLOCK FALSE
