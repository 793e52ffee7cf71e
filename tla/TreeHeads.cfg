SPECIFICATION Spec
CONSTANTS
  Absent = Absent
  Malformed = Malformed
  SubScale = 1
  PriceScale = 10
  Pools = {1, 2}
  OptionSets <- MCOptions
  Published <- MCPublished
  Owner = "op1"
  Payloads = {a, b}
  Times = {2, 3}
  HeadEdits <- MCLoneHeadEdits
  AnchorEdits <- MCAnchorEdits
  MaxLog = 3
  MaxHeads = 2
  MaxRewrites = 1
  MaxFile = 2
  MaxAnchors = 1
SYMMETRY MCSymmetry
INVARIANTS
  VerifiedHeadsPinHistory
  RootsImplyConsistency
  AnchoredHistoryStands
  SignedHeadsWerePublished
  HonestHeadsVerify
CHECK_DEADLOCK FALSE
