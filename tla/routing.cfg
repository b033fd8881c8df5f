SPECIFICATION FairSpec
CONSTANTS
  Post = {"t1", "s", "c", "o", "u"}
  Bot = {"b1"}
  Known = {"b1", "b2"}
  Root <- MCRoot
  Kind <- MCKind
  Foreign <- MCForeign
  Names <- MCNames
  Streamed <- MCStreamed
  Hooked <- MCHooked
  QueueSize = 2
  MaxFaults = 1
INVARIANTS
  TypeOK
  OneJobPerPost
  OneActiveInThread
  OnlyAddressed
  CancelStopsEarlier
PROPERTIES
  EveryMentionAnswered
CHECK_DEADLOCK FALSE
