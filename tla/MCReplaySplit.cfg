SPECIFICATION Spec
CONSTANTS
  Calls = {c1, c2}
  Texts = {t1}
  MaxTurns = 2
  MaxEdits = 2
  None = None
  Ask = Ask
  Blank = Blank
CHECK_DEADLOCK FALSE
INVARIANT PlaceholderOnlyIfGone
