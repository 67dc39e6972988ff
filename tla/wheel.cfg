SPECIFICATION FairSpec
CONSTANTS
  WheelTypes = {"fixed", "sync"}
  Filters = {0, 2}
  MaxWrites = 2
  MaxFaults = 1
  ResetAnyTime = FALSE
INVARIANTS
  IInv
  ClearMeansAsAsked
  ShownIsThere
PROPERTIES
  Settles
