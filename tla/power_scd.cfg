SPECIFICATION Spec
CONSTANTS
  ScdProxy = TRUE
  BypassChecks = FALSE
  MemoryBuffer = FALSE
  ImageCorrection = TRUE
  SyncFilterWheel = TRUE
INVARIANTS
  NoAcquisitionWhilePowering
PROPERTIES
  TransitionIsFinite
  ObeysCommands
  RequestNotUndone
  NoStartDuringTransition
