SPECIFICATION Spec
CONSTANTS
  a1 = a1
  Alarms = {a1}
  Sensors <- Guarded
  UpMax = 1
  PipeMax = 1
  MaxEvents = 3
  MaxRequests = 2
  MaxBreaks = 1
  NoLimit = NoLimit
  FormLimits = {1, 2}
  PollLimits = {0, 1}
  Readings = {0, 1}
INVARIANTS ThresholdsArrive TemperatureIsReported
PROPERTIES OneAlarmPerExcursion ActiveNotCleared SnapshotHeals
CHECK_DEADLOCK FALSE
