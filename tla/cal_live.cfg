SPECIFICATION FairSpec
CONSTANTS
  c1 = c1
  c2 = c2
  c3 = c3
  b1 = b1
  b2 = b2
  Collections = {c1, c2, c3}
  Blocks = {b1, b2}
  Null = Null
  BlocksOf <- ThreeCollections
  OnFlash <- TwoOfThree
  Bad = {b2}
  NumSlots = 5
  Requests = {"create"}
  ChecksFail = FALSE
INVARIANTS
  DataBitMeansLoading
  FilledWhenServing
PROPERTIES
  LoadEnds
CHECK_DEADLOCK FALSE
