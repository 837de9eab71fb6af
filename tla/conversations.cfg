SPECIFICATION Spec
CONSTANTS
  Conversations <- TwoThreads
  Channels <- Ch1
  Events <- TwoAndOne
  Routing <- MCRouting
  ConvOf <- MCConvOf
  CreatedAt <- MCCreatedAt
  MaxPending = 2
  MaxBatch = 2
  MaxRetries = 1
  DedupMode = "Queue"
  HoldEnabled = FALSE
  Agents = {a1, a2}
  Handling = "Queue"
  Outcomes = {"ok", "app_error", "auth_error"}
  OwnerSignals = {}
  Overruns <- SecondThread
  Heartbeats = FALSE
  Edits = {}
  ManualRetry = FALSE
  Membership = {}
  CrashLimit = 2
  MaxPushes = 3
SYMMETRY AgentSymmetry
INVARIANTS
  TypeOK
  AtMostOneTurn
  InFlightExact
  RoutingCap
  OneSessionOwner
