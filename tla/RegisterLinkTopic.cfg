SPECIFICATION LiveLinkSpec
CONSTANTS
  RegisterCmds = {"gateway_register", "device_register"}
  PENDING_MAX = 4
  MAX_FAST_RETRY = 3
  SeqBase = 3
  Editions = {}
  MaxSeq = 4
  MaxVersion = 0
  Commanders = {"ipc"}
  AcceptedTopics = {"port"}
  MaxEdition = 1
  MaxFaults = 0
CHECK_DEADLOCK FALSE
PROPERTIES SavedIsLearned
