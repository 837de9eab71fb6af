SPECIFICATION ASpec
CONSTANTS
  Conversations <- TwoChannels
  Channels <- Ch12
  Events <- TwoAndUser
  Routing <- MCRouting
  ConvOf <- MCConvOf
  CreatedAt <- MCCreatedAt
  MaxPending = 2
  MaxBatch = 2
  MaxRetries = 1
  DedupMode = "Queue"
  HoldEnabled = TRUE
  Agents = {a1}
  Handling = "Steer"
  Outcomes = {"ok", "cancelled"}
  OwnerSignals = {}
  Overruns <- TwoChannels
  Heartbeats = TRUE
  Edits = {}
  ManualRetry = FALSE
  Membership = {"ch1"}
  CrashLimit = 2
  MaxPushes = 3
INVARIANTS
  LossOnlyByMerge
  RemovedSessionsStripped
