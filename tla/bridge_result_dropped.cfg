SPECIFICATION FairSpec
CONSTANTS
  j1 = j1
  j2 = j2
  Job = {j1}
  thread = thread
  ThreadOf <- OneThread
  Refused = {}
  MaxJobs = 1
  Slow = {}
  Verdicts = {"succeeded"}
  MaxEvents = 2
PROPERTY
  ResultSurvivesReconnect
CHECK_DEADLOCK FALSE
