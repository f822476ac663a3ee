SPECIFICATION Spec
CONSTANTS
  d1 = d1
  Devices = {d1}
  Expecting = {d1}
  MaxSample = 1
  Bad = {1}
  Statuses = {"online"}
  MaxOps = 1
  MaxBreaks = 1
  PipeMax = 1
PROPERTIES LatestIsShown
