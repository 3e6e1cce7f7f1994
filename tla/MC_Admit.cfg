CONSTANTS
  s1 = s1  s2 = s2  w1 = w1  w2 = w2  k1 = k1  k2 = k2
  None = None
  SessionIds = {s1, s2}
  Workers = {w1, w2}
  Keys = {k1}
  BlankKey = BlankKey
  Delegations <- AdmitDelegations
  Proposals <- AdmitProposals
  Calls <- AdmitCalls
  Additions <- AdmitAdditions
  Generations = {1}
  Adapters <- MixedAdapters
  Clock = {0}
  Malformed = {}
  CustomDims <- CustomDimensions
  MaxU64 = 200000
SPECIFICATION Spec
SYMMETRY SessionWorkerSymmetry
INVARIANTS
  DelegationAccounting
CHECK_DEADLOCK FALSE
