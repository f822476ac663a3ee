SPECIFICATION LiveSpec
CONSTANTS
  Kind <- Kept2
  Publishers = {"port"}
  Commanders = {"ipc"}
  QUEUE_MAX = 2
  FLUSH_BATCH = 1
  MAX_RECORDS = 1
  CLEANUP_BATCH = 1
  MAX_SENDS = 2
  SAMPLE_INTERVAL = 2
  MaxFaults = 1
INVARIANTS
  CriticalIsKept
  NoOverlapNoDuplicate
  FlagsFollowConfig
PROPERTY PendingIsFlushed
