CONSTANTS
  Roots = {r1, r2}
  NoSite = nosite
  Sizes <- Bytes
  Chunk = 2
  IntMax = 3
  MaxEdits = 2

SPECIFICATION Spec

INVARIANTS
  LengthMatches

\* The child ends, and the edits are bounded.
CHECK_DEADLOCK FALSE
