SPECIFICATION Spec
CONSTANTS
  d1 = d1
  Devices = {d1}
  Expecting = {d1}
  MaxSample = 2
  Bad = {2}
  Statuses = {"online"}
  MaxOps = 1
  MaxBreaks = 1
  PipeMax = 1
INVARIANTS RemovedStaysHidden
PROPERTIES ValuesDoNotGoBack
