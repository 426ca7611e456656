CONSTANTS
  Conns = {c1, c2, c3}
  Parent = parent
  NoConn = none
  Backlog = 2
  Requests <- FileOrHeadMissing
  Faults <- NoFaults
  EvalOrder <- RightToLeft

SPECIFICATION Spec
SYMMETRY Symmetry

INVARIANTS
  NoLostZombie
  ExactConnections
  ParentSurvives
CHECK_DEADLOCK FALSE
