CONSTANTS
  s1 = s1  s2 = s2  w1 = w1  w2 = w2  k1 = k1
  None = None
  SessionIds = {s1, s2}
  Workers = {w1, w2}
  Keys = {k1}
  BlankKey = BlankKey
  Delegations <- OneDelegation
  Proposals <- TwoProposals
  Calls <- OneCall
  Additions <- OneMore
  Generations = {1}
  Adapters <- SegmentedAdapter
  Clock = {0, 1000}
  Malformed = {}
  CustomDims <- Names
  MaxU64 = 200000
SPECIFICATION LockFairSpec
PROPERTY EveryRequestAnswered
