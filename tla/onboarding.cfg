SPECIFICATION FairSpec
CONSTANTS
  Code = {"c1"}
  NoCode = NoCode
  NoCmd = NoCmd
  Cmd = {"k1", "k2", "k3"}
  CodeOf <- MCCodeOf
  NameOf <- MCNameOf
  Req = {1, 2}
  MaxFailures = 2
  MaxHard = 2
INVARIANTS
  TypeOK
  TokenOnce
  CodeClaimedOnce
  BoundIsComplete
  PairedIsUsable
  FailedLeavesNothing
PROPERTIES
  WaitEnds
CHECK_DEADLOCK FALSE
