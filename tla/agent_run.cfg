SPECIFICATION FairSpec
CONSTANTS
  j1 = j1
  j2 = j2
  app = app
  None = None
  Job = {j1, j2}
  Workspace = {app}
  MaxJobs = 2
  PipeCap = 1
  MaxEvents = 2
INVARIANTS
  SessionFits
  HonestVerdict
PROPERTIES
  ThreadContinues
  RunEnds
CHECK_DEADLOCK FALSE
