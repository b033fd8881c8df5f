SPECIFICATION Spec
CONSTANTS
  a1 = a1
  a2 = a2
  Approval = {a1}
  Choice = {"allow"}
  Verdicts = {"succeeded"}
  MaxFaults = 0
INVARIANT
  SendIsSafe
CHECK_DEADLOCK FALSE
