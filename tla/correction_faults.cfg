SPECIFICATION Spec
CONSTANTS
  Collections <- OneBlock
  IcuBlock = icu
  Null = null
  MaxEntries = 1
  Modes = {"ICU"}
  BPDetection = FALSE
  Faults = {"badLoad", "stop", "power", "icuMoved", "startRace", "writeError"}
  MaxDisturbances = 1
  b1 = b1
  b2 = b2
INVARIANTS
  BusyIsExplained
PROPERTIES
  ObeysCommands
  KeepsContract
