SPECIFICATION LiveSpec
CONSTANTS
  ScdProxy = FALSE
  BypassChecks = FALSE
  MemoryBuffer = FALSE
  ImageCorrection = FALSE
  SyncFilterWheel = FALSE
PROPERTIES
  TransitionEnds
  RequestAnswered
