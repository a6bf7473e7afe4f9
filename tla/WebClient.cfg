SPECIFICATION Spec
CONSTANTS
  Ids = {r1, r2}
  Hands = {h1, h2}
  Screens <- MCScreens
  Unmirrored <- MCUnmirrored
  Unguarded <- MCUnguarded
  MaxEvents = 2
  None = None
SYMMETRY Symmetric
INVARIANTS OwnWriteIsSeen OneFormOneRecord OnlyAskedIsDeleted
PROPERTIES ClosedIsSaved OnlyStaleIsRefused
CHECK_DEADLOCK FALSE
