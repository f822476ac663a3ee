SPECIFICATION Spec
CONSTANTS
  ChannelCount = 2
  MaxCmd = 2
  DeviceKinds = {"remove_device"}
  MaxFault = 1
  PipeMax = 1
INVARIANT PcUiShowsReading
CHECK_DEADLOCK FALSE
