SPECIFICATION Spec
CONSTANTS
  Sids = {s1, s2, s3, s4, s5}
  Sessions = {a, b}
  MaxSize = 3
  FuncNames = {f}
  Sigs = {g}
  None = None
INVARIANTS TypeOK OrderListsLive Bounded
PROPERTIES FifoSpec SignaturesSurvive
CHECK_DEADLOCK FALSE
