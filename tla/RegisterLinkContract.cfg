SPECIFICATION LiveLinkSpec
CONSTANTS
  RegisterCmds = {"gateway_register", "device_register"}
  PENDING_MAX = 4
  MAX_FAST_RETRY = 3
  SeqBase = 3
  Editions = {}
  MaxSeq = 5
  MaxVersion = 0
  Commanders = {"ipc"}
  AcceptedTopics = {"gateway", "port"}
  MaxEdition = 1
  MaxFaults = 1
CHECK_DEADLOCK FALSE
INVARIANTS
  GateMeansSaved
PROPERTIES
  VersionsNeverGoBack
  SavedIsLearned
