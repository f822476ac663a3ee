SPECIFICATION Spec
CONSTANTS
  ChannelCount = 1
  Slaves = {"s1"}
  OfflineFailureThreshold = 2
  MaxActs = 2
  MaxFaults = 1
PROPERTIES OperatorIsAnswered ScreenFollowsBoard ScreenListsDevices
CHECK_DEADLOCK FALSE
