SPECIFICATION FairSpec
CONSTANTS
  d1 = d1
  d2 = d2
  u1 = u1
  Down = {d1, d2}
  Up = {u1}
  DownCap = 2
  UpCap = 2
  MaxJobs = 1
  MaxBreaks = 1
INVARIANTS
  BlockNeedsLoad
PROPERTY
  Drained
CHECK_DEADLOCK FALSE
