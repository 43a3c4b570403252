SPECIFICATION Spec
CONSTANTS
  Targets = {"anthropic", "openai"}
  Names = {a, b}
  MaxChunks = 3
  MaxParts = 4
  None = None
CHECK_DEADLOCK FALSE
SYMMETRY NameSymmetry
INVARIANTS TypeOK PartsComplete OutcomeReported
PROPERTY StreamSpec
