SPECIFICATION Spec
CONSTANTS
  User = {u1, u2}
  Team = {t1, t2, t3}
  NoUser = NoUser
  MaxGen = 4
  MaxFailures = 2
  MaxHard = 2
SYMMETRY Symmetric
INVARIANTS
  GrantSurvives
  NoOrphanCommand
  NoStaleClient
CHECK_DEADLOCK FALSE
