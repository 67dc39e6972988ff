SPECIFICATION Spec
CONSTANTS
  ScdProxy = FALSE
  BypassChecks = FALSE
  MemoryBuffer = TRUE
  ImageCorrection = FALSE
  SyncFilterWheel = FALSE
INVARIANTS
  IInv
  OnMeansVerified
PROPERTIES
  KeepsContract
