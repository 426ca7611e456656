CONSTANTS
  Conns = {c1, c2}
  Parent = parent
  NoConn = none
  Backlog = 2
  Requests <- GetFile
  Faults <- NoFaults
  EvalOrder <- RightToLeft

SPECIFICATION FairSpec

PROPERTY
  ResponseSent

CHECK_DEADLOCK FALSE
