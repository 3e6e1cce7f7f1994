CONSTANTS
  s1 = s1  s2 = s2  w1 = w1  w2 = w2  k1 = k1  k2 = k2
  None = None
  SessionIds = {s1, s2}
  Workers = {w1, w2}
  Keys = {k1}
  BlankKey = BlankKey
  Delegations <- OneDelegation
  Proposals <- OneProposal
  Calls <- OneCall
  Additions = {}
  Generations = {1}
  Adapters <- BuiltInAdapters
  Clock = {0, 1000}
  Malformed = {}
  CustomDims <- Notifications
  MaxU64 = 200000
  MaxRestarts = 1
  MaxStepsBack = 1
SPECIFICATION FaultSpec
SYMMETRY AllSymmetry
INVARIANTS
  ExactlyOnce
  OneOutcome
PROPERTIES
  ClosedUnlessLost
CHECK_DEADLOCK FALSE
