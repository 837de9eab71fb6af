SPECIFICATION ASpec
CONSTANTS
  Conversations <- TwoThreads
  Channels <- Ch1
  Events <- TwoAndOne
  Routing <- MCRouting
  ConvOf <- MCConvOf
  CreatedAt <- MCCreatedAt
  MaxPending = 2
  MaxBatch = 2
  MaxRetries = 1
  DedupMode = "Queue"
  HoldEnabled = FALSE
  Agents = {a1}
  Handling = "OwnerInterrupt"
  Outcomes = {"ok", "cancelled", "exited", "workspace_busy", "indeterminate"}
  OwnerSignals = {"Cancel", "Rotate", "SwitchModel"}
  Overruns = {}
  Heartbeats = TRUE
  Edits = {"drop"}
  ManualRetry = TRUE
  Membership = {}
  CrashLimit = 1
  MaxPushes = 3
INVARIANTS
  LossOnlyByMerge
  SlotExclusive
  HeartbeatFlagExact
