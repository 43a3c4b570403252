SPECIFICATION Spec
CONSTANTS
  Writers = {w1}
  Inodes = {i1, i2, i3, i4}
  CloseAllowed = TRUE
  MaxMutations = 3
  MaxFailures = 1
  MaxCrashes = 1
  Nil = Nil
  Empty = Empty
  Mixed = Mixed
CHECK_DEADLOCK FALSE
INVARIANTS TypeOK OnlyOverlapDamages
PROPERTIES NeverBackwards SavedUnlessFailed
