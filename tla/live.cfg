SPECIFICATION FairSpec
CONSTANTS
  Conversations <- OneThread
  Channels <- Ch1
  Events <- TwoOfOne
  Routing <- MCRouting
  ConvOf <- MCConvOf
  CreatedAt <- MCCreatedAt
  MaxPending = 2
  MaxBatch = 2
  MaxRetries = 1
  DedupMode = "Queue"
  HoldEnabled = TRUE
  Agents = {a1}
  Handling = "Steer"
  Outcomes = {"ok", "cancelled", "exited"}
  OwnerSignals = {"Cancel"}
  Overruns <- OneThread
  Heartbeats = FALSE
  Edits = {}
  ManualRetry = FALSE
  Membership = {}
  CrashLimit = 1
  MaxPushes = 2
PROPERTIES
  EveryEventMoves
  SlotsRecover
