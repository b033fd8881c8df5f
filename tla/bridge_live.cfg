SPECIFICATION FairSpec
CONSTANTS
  j1 = j1
  j2 = j2
  Job = {j1}
  thread = thread
  ThreadOf <- OneThread
  Refused = {j1}
  MaxJobs = 1
  Slow = {j1}
  Verdicts = {"succeeded", "failed", "cancelled"}
  MaxEvents = 2
PROPERTIES
  EveryJobEnds
  OutboxesDrain
CHECK_DEADLOCK FALSE
