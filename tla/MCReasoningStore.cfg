SPECIFICATION Spec
CONSTANTS
  Keys = {k1, k2, k3}
  Versions = {v1}
  Callers = {c1}
  Objs = {o1, o2, o3, o4}
  MaxSize = 2
  MaxAge = 1
  MaxTime = 2
  MaxDeletions = 1
  Persistent = TRUE
  Nil = Nil
  Torn = Torn
CHECK_DEADLOCK FALSE
SYMMETRY Symmetry
INVARIANTS TypeOK OverflowBound AnswersOwnKey
PROPERTY FifoUnlessDeleted
