SPECIFICATION FairFileSpec
CONSTANTS
  Absent = Absent
  Malformed = Malformed
  SubScale = 1
  PriceScale = 10
  NumAccounts = 2
  Pools = {"p1", "p2"}
  KeyIds = {"k1", "k2"}
  OptionSets <- MCOptions
  Published <- MCPublished
  Owner <- MCOwner
  ProducedTypes = {"STAKE", "UNSTAKE_BURN", "EPOCH"}
  ShareValues = {1}
  Times = {1, 3}
  MaxLog = 2
  MaxRead = 2
  FieldEdits <- MCFieldEdits
INVARIANTS
  SignedEntryVouchesForPrefix
PROPERTIES
  HonestRunSucceeds
CHECK_DEADLOCK FALSE
