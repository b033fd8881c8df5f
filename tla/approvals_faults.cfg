SPECIFICATION FairSpec
CONSTANTS
  a1 = a1
  a2 = a2
  Approval = {a1}
  Choice = {"allow", "deny"}
  Verdicts = {"succeeded"}
  MaxFaults = 1
INVARIANTS
  TypeOK
  AllowIsRecorded
PROPERTIES
  KeepsLifecycle
  EveryAskIsAnswered
  AwaitingEnds
CHECK_DEADLOCK FALSE
