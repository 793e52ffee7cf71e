SPECIFICATION PublisherSpec
CONSTANTS
  EntryHashes <- MCEntryHashes
  MaxLeaves = 8
INVARIANTS
  FrontierIsMerkleRoot
  CacheIsNeverHalfAdvanced
  InclusionRoundTrips
  InclusionIsSound
  ConsistencyRoundTrips
  ConsistencyIsSound
  RootsAreInjective
CHECK_DEADLOCK FALSE
