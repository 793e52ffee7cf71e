SPECIFICATION Spec
CONSTANTS
  Absent = Absent
  Malformed = Malformed
  SubScale = 1
  PriceScale = 10
  Pools = {1}
  OptionSets <- MCStrict
  Published <- MCPublished
  Owner = "op1"
  Payloads = {"a", "b"}
  Times = {2, 3}
  HeadEdits <- MCNoHeadEdits
  AnchorEdits <- MCNoAnchorEdits
  MaxLog = 1
  MaxHeads = 2
  MaxRewrites = 0
  MaxFile = 2
  MaxAnchors = 1
INVARIANTS
  HonestAnchorsVerify
CHECK_DEADLOCK FALSE
