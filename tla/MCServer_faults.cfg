CONSTANTS
  Conns = {c1, c2}
  Parent = parent
  NoConn = none
  Backlog = 1
  Requests <- EveryPath
  Faults <- AllFaults
  EvalOrder <- RightToLeft

SPECIFICATION Spec
SYMMETRY Symmetry

INVARIANTS
  TypeOK
  HoldersAreAlive
  CountedFirst
  LogFaithful
  WholeAnswer
  PageAddsUp
PROPERTY
  StatsProtocol
CHECK_DEADLOCK FALSE
