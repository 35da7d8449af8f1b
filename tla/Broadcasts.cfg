SPECIFICATION BroadcastsSpec
CONSTANTS
  Users = {"u", "v"}
  Chunks = 2
  Batch = 2
  Concurrency = 1
  Retries = 1
  MaxFaults = 1
  MaxTaps = 1
  StrayTaps = FALSE
  Calls = {c1, c2}
  Audiences = {"all", "paid"}
  Everyone = "all"
  NoSession = NoSession
  NoCount = NoCount
  MaxDrafts = 2
  MaxUpdates = 10
  MaxFailures = 1
INVARIANTS
  TypesOK
  SentInFull
  NoRepeatOfRecorded
  CompleteIsFinal
  LaunchedAsConfirmed
PROPERTIES
  CampaignEnds
CHECK_DEADLOCK FALSE
