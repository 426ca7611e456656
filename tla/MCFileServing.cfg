CONSTANTS
  Roots = {r1, r2}
  NoSite = nosite
  Sizes <- Bytes
  Chunk = 2
  IntMax = 2
  MaxEdits = 3

SPECIFICATION Spec

INVARIANTS
  TypeOK
  OneVersion
  QuietLength
  CrashHasCause

\* The child ends, and the edits are bounded.
CHECK_DEADLOCK FALSE
