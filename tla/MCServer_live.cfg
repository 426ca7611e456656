CONSTANTS
  Conns = {c1, c2}
  Parent = parent
  NoConn = none
  Backlog = 2
  Requests <- FileOrHeadMissing
  Faults <- NoFaults
  EvalOrder <- RightToLeft

SPECIFICATION FairSpec

PROPERTIES
  EveryClientForked
  ZombiesReaped
  ConnectionsEnd
  ChildEndsOrSleeps
CHECK_DEADLOCK FALSE
