SPECIFICATION Spec
CONSTANTS
  ChannelCount = 2
  MaxCmd = 2
  DeviceKinds = {"remove_device"}
  MaxFault = 1
  PipeMax = 1
INVARIANTS SuccessIsOwn ClosedInLog
PROPERTIES ImplementsContract OpenCommandKept EventuallyTold
CHECK_DEADLOCK FALSE
