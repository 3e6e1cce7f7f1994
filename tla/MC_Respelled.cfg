CONSTANTS
  s1 = s1  s2 = s2  w1 = w1  w2 = w2  k1 = k1  k2 = k2
  None = None
  SessionIds = {s1, s2}
  Workers = {w1}
  Keys = {k1}
  BlankKey = BlankKey
  Delegations <- AdmitDelegations
  Proposals <- AdmitProposals
  Calls <- AdmitCalls
  Additions = {}
  Generations = {1}
  Adapters <- BuiltInAdapters
  Clock = {0}
  Malformed = {}
  CustomDims <- Notifications
  MaxU64 = 200000
SPECIFICATION Spec
SYMMETRY SessionWorkerSymmetry
INVARIANT ProofServesOnce
CHECK_DEADLOCK FALSE
