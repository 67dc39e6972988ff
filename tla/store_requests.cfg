SPECIFICATION FairSpec
CONSTANTS
  Unreadable = Unreadable
  FlashFails = TRUE
  MaxWrites = 3
INVARIANTS
  SavedUnlessLate
  IInv
PROPERTIES
  SaveEnds
