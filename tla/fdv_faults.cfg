SPECIFICATION Spec
CONSTANTS
  Absent = Absent
  Torn = Torn
  Faults = {"create", "write", "close", "remove", "rename",
            "openDir", "open", "parse", "closeRead"}
  SecondPartition = FALSE
  MaxUpdates = 4
INVARIANTS
  NothingLost
  NeverBackwards
  IInv
PROPERTIES
  KeepsRecord
