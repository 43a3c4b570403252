SPECIFICATION Spec
CONSTANTS
  Upstreams = {"openai", "anthropic"}
  Calls = {c1, c2}
  MaxChunks = 3
  MaxEntries = 3
  MaxBlocks = 3
  None = None
CHECK_DEADLOCK FALSE
SYMMETRY CallSymmetry
INVARIANTS TypeOK ContentComplete OutcomeReported
PROPERTY ResponsesSpec
