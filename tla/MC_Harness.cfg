CONSTANTS
  s1 = s1  w1 = w1  c1 = c1  k1 = k1  seal = seal  abort = abort
  None = None
  SessionIds = {s1}
  Workers = {w1}
  Keys = {k1, seal, abort}
  BlankKey = BlankKey
  Delegations <- Minted
  Proposals <- AllAsks
  Calls <- AllCalls
  Additions <- OneMore
  Generations = {1, 2, 3}
  Adapters <- BuiltInAdapters
  Clock = {0, 1000}
  Malformed = {}
  CustomDims <- Notifications
  MaxU64 = 200000
  Clients = {c1}
  Asks <- OneAsk
  ToolKeys = {k1}
  SealKey = seal
  AbortKey = abort
  MaxRpcs = 3
  MaxRestarts = 1
  MaxStepsBack = 0
SPECIFICATION HarnessFairSpec
INVARIANTS
  HarnessTypeOK
  SuccessIsSettled
  ReceiptsInHandStand
  NeverSettledUnawares
  FencedByLostAmendOnly
PROPERTIES
  FencedClientStrands
  OwnRequestsOnly
  BlockEnds
CHECK_DEADLOCK FALSE
