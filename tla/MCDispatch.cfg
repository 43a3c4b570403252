SPECIFICATION Spec
CONSTANTS
  Sids = {s1, s2}
  MaxSize = 1
  Routes <- StreamRoutes
  Mapped = TRUE
  UriKnown = TRUE
  MaxExchanges = 2
  MaxEvents = 1
  None = None
INVARIANTS TypeOK StreamInOnePiece ResponseInClientProtocol NoLeak
PROPERTY OnlyStaleResponsesRefused
CHECK_DEADLOCK FALSE
SYMMETRY SidSymmetry
