SPECIFICATION Spec
CONSTANTS
  Collections <- OneCollection
  IcuBlock = icu
  Null = null
  MaxEntries = 2
  Modes = {"ICU", "AllBlocks", "BlockSync"}
  BPDetection = TRUE
  Faults = {"badLoad"}
  MaxDisturbances = 0
  b1 = b1
  b2 = b2
INVARIANTS
  IInv
  RegistersRestored
  NoStrayAcquisition
  ValidIsSound
  AppliedUpToDate
  CalibrationRestored
PROPERTIES
  CorrectionIsFinite
