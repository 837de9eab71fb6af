SPECIFICATION ASpec
CONSTANTS
  Conversations <- TwoThreads
  Channels <- Ch1
  Events <- TwoAndOne
  Routing <- MCRouting
  ConvOf <- MCConvOf
  CreatedAt <- MCCreatedAt
  MaxPending = 2
  MaxBatch = 2
  MaxRetries = 1
  DedupMode = "Queue"
  HoldEnabled = FALSE
  Agents = {a1}
  Handling = "Interrupt"
  Outcomes = {"ok", "cancelled"}
  OwnerSignals = {}
  Overruns = {}
  Heartbeats = FALSE
  Edits = {}
  ManualRetry = FALSE
  Membership = {}
  CrashLimit = 2
  MaxPushes = 4
INVARIANTS
  NoSilentLoss
