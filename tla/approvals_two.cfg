SPECIFICATION Spec
CONSTANTS
  a1 = a1
  a2 = a2
  Approval = {a1, a2}
  Choice = {"allow"}
  Verdicts = {"succeeded"}
  MaxFaults = 0
SYMMETRY Symmetry
INVARIANTS
  AwaitingHasReason
CHECK_DEADLOCK FALSE
