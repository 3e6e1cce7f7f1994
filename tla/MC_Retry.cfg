CONSTANTS
  s1 = s1  s2 = s2  w1 = w1  w2 = w2  k1 = k1  k2 = k2
  None = None
  SessionIds = {s1}
  Workers = {w1, w2}
  Keys = {k1, k2}
  BlankKey = BlankKey
  Delegations <- RetryDelegations
  Proposals <- RetryProposals
  Calls <- RetryCalls
  Additions = {}
  Generations = {1}
  Adapters <- BuiltInAdapters
  Clock <- RetryClock
  Malformed = {}
  CustomDims <- Notifications
  MaxU64 = 200000
SPECIFICATION Spec
SYMMETRY WorkerKeySymmetry
INVARIANTS
  TypeOK
  ExactlyOnce
  BudgetConservation
  ReceiptFaithful
  OneOutcome
  SealNeverDenied
  ExpiredOnlyAfterDeadline
PROPERTIES
  ImplementsEnvelope
  ClosedForGood
  RepliesAreRecorded
  FrozenAfterDeadline
CHECK_DEADLOCK FALSE
