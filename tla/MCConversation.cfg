SPECIFICATION Spec
CONSTANTS
  Names = {f, g}
  MaxTurns = 2
  MaxParts = 3
  MaxSaid = 4
  None = None
CHECK_DEADLOCK FALSE
SYMMETRY NameSymmetry
INVARIANTS TypeOK ConversationKept ResultsLinked SignaturesReturned
