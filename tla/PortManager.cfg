SPECIFICATION LiveSpec
CONSTANTS
  Slots = {0, 1}
  Ports = {"ttymxc1", "ttymxc2"}
  Devices = {1}
  Commanders = {"ipc"}
  MaxConnects = 2
  MaxFaults = 1
CHECK_DEADLOCK FALSE
INVARIANTS
  BusOutlivesUse
  PollerIsOwned
  OneSlotPerPort
  DevicesAreSaved
PROPERTY StopEnds
