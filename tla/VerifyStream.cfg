SPECIFICATION MCSpec
CONSTANTS
  Absent = Absent
  Malformed = Malformed
  SubScale = 1
  PriceScale = 10
  NumAccounts = 2
  Pools = {"p1"}
  KeyIds = {"k1", "k2"}
  OptionSets <- MCBoth
  MaxShareEvents = 3
  MaxEpochEvents = 4
INVARIANTS
  TypeOK
  BalancesSumToTotal
  BalancesAreNetIssuance
  AcceptedIsOneChain
  AssetsReconcile
  FeeSharesNeverDilute
PROPERTIES
  ReplaysShareLedger
CHECK_DEADLOCK FALSE
