SPECIFICATION Spec
CONSTANTS
  Calls = {c1, c2}
  Names = {a}
  Declared = {}
  MaxChunks = 3
  MaxEntries = 3
  Interleaved = TRUE
  Interruptible = TRUE
  None = None
CHECK_DEADLOCK FALSE
SYMMETRY CallSymmetry
INVARIANTS TypeOK ContentComplete ToolUseAnnounced CacheServesReplay
PROPERTY SseSpec
