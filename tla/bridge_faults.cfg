SPECIFICATION Spec
CONSTANTS
  j1 = j1
  j2 = j2
  thread = thread
  Job = {j1, j2}
  ThreadOf <- OneThread
  Refused = {}
  MaxJobs = 1
  Slow = {}
  Verdicts = {"succeeded"}
  MaxEvents = 3
SYMMETRY Symmetry
INVARIANTS
  TypeOK
  ResultNotLost
  RunningHasOwner
  OneActivePerThread
PROPERTY
  ImplementsLifecycle
CHECK_DEADLOCK FALSE
