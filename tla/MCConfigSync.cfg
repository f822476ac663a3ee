SPECIFICATION Spec
CONSTANTS
  RegisterCmds = {"device_register"}
  PENDING_MAX = 2
  MAX_FAST_RETRY = 1
  SeqBase = 2
  Editions = {0}
  MaxSeq = 3
  MaxVersion = 2
INVARIANTS
  TypeOK
  NothingWaitsWhileIdle
  KeysAreUnique
  SuccessMeansDrained
PROPERTIES
  OnlyItsAckRetires
  NewVersionClosesGate
