\* Four processes, two counters; no increment starts from a counter at 3, so
\* a counter can be driven past 3 by increments already begun.
CONSTANTS
  Procs = {p1, p2, p3, p4}
  Counters = {k1, k2}
  MaxCount = 3

SPECIFICATION Spec
SYMMETRY Symmetry

INVARIANTS
  MutualExclusion

PROPERTY IncrementsAreAtomic

\* Increments stop at MaxCount, and a process whose wakeup never comes sleeps
\* for ever.
CHECK_DEADLOCK FALSE
