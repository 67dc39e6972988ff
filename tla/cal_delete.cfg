SPECIFICATION Spec
CONSTANTS
  c1 = c1
  c2 = c2
  c3 = c3
  b1 = b1
  b2 = b2
  Collections = {c1, c2}
  Blocks = {b1, b2}
  Null = Null
  BlocksOf <- TwoBlocks
  OnFlash <- TwoCollections
  Bad = {}
  NumSlots = 4
  Requests = {"delete", "format"}
  ChecksFail = TRUE
INVARIANTS
  IInv
  ValidMeansLoaded
PROPERTIES
  KeepsContract
  LoadIsFinite
CHECK_DEADLOCK FALSE
