CONSTANTS
  s1 = s1  s2 = s2  w1 = w1  w2 = w2  k1 = k1  k2 = k2
  None = None
  SessionIds = {s1}
  Workers = {w1, w2}
  Keys = {k1}
  BlankKey = BlankKey
  Delegations <- CustomDelegations
  Proposals <- CustomProposals
  Calls <- CustomCalls
  Additions <- CustomAdditions
  Generations = {1}
  Adapters <- CustomAdapters
  Clock = {0}
  Malformed = {}
  CustomDims <- CustomDimensions
  MaxU64 = 200000
SPECIFICATION Spec
SYMMETRY WorkerSymmetry
PROPERTY ChargesAreAtomic
CHECK_DEADLOCK FALSE
