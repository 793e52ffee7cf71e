SPECIFICATION Spec
CONSTANTS
  Absent = Absent
  Malformed = Malformed
  SubScale = 3
  PriceScale = 10
  Pools = {"p1", "p2"}
  CurrencyOf <- MCCurrencyOf
  Operator = "op1"
  WalletKeys <- MCWalletKeys
  OptionSets <- MCOptions
  Balances = {4}
  DocEdits <- MCDocEdits
  MaxTime = 2
  MaxHeads = 2
  MaxSigned = 2
  MaxRecords = 2
INVARIANT GivenHeadsAreChecked
CHECK_DEADLOCK FALSE
