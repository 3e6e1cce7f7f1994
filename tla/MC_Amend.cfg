CONSTANTS
  s1 = s1  s2 = s2  w1 = w1  w2 = w2  k1 = k1  k2 = k2
  None = None
  SessionIds = {s1}
  Workers = {w1, w2}
  Keys = {k1}
  BlankKey = BlankKey
  Delegations <- AmendDelegations
  Proposals <- AmendProposals
  Calls <- AmendCalls
  Additions <- AmendAdditions
  Generations = {1, 2}
  Adapters <- BuiltInAdapters
  Clock <- AmendClock
  Malformed = {}
  CustomDims <- Notifications
  MaxU64 = 200000
SPECIFICATION Spec
SYMMETRY WorkerSymmetry
INVARIANTS
  BudgetConservation
PROPERTIES
  ImplementsEnvelope
  StaleTokenHasNoEffect
  RejectionChangesNothing
CHECK_DEADLOCK FALSE
