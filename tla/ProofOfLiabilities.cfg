SPECIFICATION Spec
CONSTANTS
  Absent = Absent
  Malformed = Malformed
  SubScale = 2
  PriceScale = 10
  NumAccounts = 3
  House = {3}
  InputSets <- MCInputSets
  UserSplit = {1, 2}
  HouseSplit = {1, 3}
  Weights = {1, 2}
  Draws <- MCDraws
  Sums <- MCSums
  MaxForged = 4
  MaxShown = 3
INVARIANTS
  HonestDocVerifies
  CommittedLeavesOnly
  ReportsFitTotal
CHECK_DEADLOCK FALSE
