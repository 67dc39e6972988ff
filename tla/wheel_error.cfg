SPECIFICATION FairSpec
CONSTANTS
  WheelTypes = {"fixed", "sync"}
  Filters = {0, 2}
  MaxWrites = 3
  MaxFaults = 0
  ResetAnyTime = FALSE
PROPERTIES
  ErrorEnds
