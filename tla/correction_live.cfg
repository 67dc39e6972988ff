SPECIFICATION FairSpec
CONSTANTS
  Collections <- OneCollection
  IcuBlock = icu
  Null = null
  MaxEntries = 2
  Modes = {"ICU", "AllBlocksSync"}
  BPDetection = TRUE
  Faults = {"writeError"}
  MaxDisturbances = 0
  b1 = b1
  b2 = b2
PROPERTIES
  CorrectionEnds
