SPECIFICATION FileSpec
CONSTANTS
  Absent = Absent
  Malformed = Malformed
  SubScale = 3
  PriceScale = 10
  NumAccounts = 1
  Pools = {"p1"}
  KeyIds = {"k1", "k2"}
  OptionSets <- MCOptions
  Published <- MCPublished
  Owner <- MCOwner
  ProducedTypes = {"STAKE"}
  ShareValues = {4}
  Times = {1, 2, 3}
  MaxLog = 3
  MaxRead = 3
  FieldEdits <- MCAllEdits
INVARIANTS
  SignedEntryVouchesForPrefix
  HonestExportVerifies
  ReplayMatchesBooks
CHECK_DEADLOCK FALSE
