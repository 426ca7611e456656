CONSTANTS
  Conns = {c1, c2}
  Parent = parent
  NoConn = none
  Backlog = 2
  Requests <- HeadMissing
  Faults <- NoFaults
  EvalOrder <- RightToLeft

SPECIFICATION Spec

INVARIANT
  NotFoundSent

CHECK_DEADLOCK FALSE
