SPECIFICATION Spec
CONSTANTS
  Conversations <- OneThread
  Channels <- Ch1
  Events <- TwoOfOne
  Routing <- MCRouting
  ConvOf <- MCConvOf
  CreatedAt <- MCCreatedAt
  MaxPending = 2
  MaxBatch = 2
  MaxRetries = 1
  DedupMode = "Queue"
  HoldEnabled = FALSE
  Agents = {a1, a2}
  Handling = "Queue"
  Outcomes = {"ok"}
  OwnerSignals = {}
  Overruns <- OneThread
  Heartbeats = FALSE
  Edits = {}
  ManualRetry = FALSE
  Membership = {}
  CrashLimit = 2
  MaxPushes = 3
SYMMETRY AgentSymmetry
INVARIANTS
  OnePromptInFlight
