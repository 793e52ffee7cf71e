SPECIFICATION SettlementSpec
CONSTANTS
  Absent = Absent
  Malformed = Malformed
  SubScale = 1
  PriceScale = 10
  NumAccounts = 2
  Pools = {"p1"}
  KeyIds = {"k1"}
  OptionSets <- MCOptions
  Pool = "p1"
  Operator = "op1"
  Treasury = 2
  Results <- MCResults
  Capital = {0, 1}
  Fees = {0, 2}
  Flows = {1, 4}
  MaxEpochs = 2
  MaxFlows = 2
INVARIANTS
  HonestEpochsVerify
  AssetsFollowReplay
CHECK_DEADLOCK FALSE
