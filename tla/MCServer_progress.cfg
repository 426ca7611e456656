\* Three connections, so that main can meet a child that sleeps for ever and
\* another one that holds the semaphore.
CONSTANTS
  Conns = {c1, c2, c3}
  Parent = parent
  NoConn = none
  Backlog = 1
  Requests <- HeadMissing
  Faults <- NoFaults
  EvalOrder <- RightToLeft

SPECIFICATION FairSpec

PROPERTY
  MainReturns

CHECK_DEADLOCK FALSE
