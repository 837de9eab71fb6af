SPECIFICATION Spec
CONSTANTS
  Conversations <- TwoThreads
  Channels <- Ch1
  Events <- TwoAndOne
  Routing <- MCRouting
  ConvOf <- MCConvOf
  CreatedAt <- MCCreatedAt
  MaxPending = 2
  MaxBatch = 2
  MaxRetries = 1
  DedupMode = "Queue"
  HoldEnabled = FALSE
  Agents = {a1}
  Handling = "Steer"
  Outcomes = {"ok", "exited"}
  OwnerSignals = {"SwitchModel"}
  Overruns <- SecondThread
  Heartbeats = TRUE
  Edits = {"patch"}
  ManualRetry = TRUE
  Membership = {}
  CrashLimit = 2
  MaxPushes = 3
INVARIANTS
  WithheldHasAck
  SteeredNotPrompted
  EventInOnePlace
