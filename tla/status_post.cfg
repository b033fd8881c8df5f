SPECIFICATION FairSpec
CONSTANTS
  c1 = c1
  c2 = c2
  Caller = {c1, c2}
  MaxTexts = 6
  MaxFinals = 2
INVARIANTS
  PendingHasTimer
PROPERTIES
  NoEditForgotten
  OutcomeShown
CHECK_DEADLOCK FALSE
