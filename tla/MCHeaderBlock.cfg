CONSTANTS
  Lines <- SomeLines
  MaxLines = 4
  LineMax = 5
  BlockMax = 13
  Garbage = garbage
  InitCapacity = 1

SPECIFICATION Spec

INVARIANTS
  TypeOK
  InOrder
  LossHasCause
  FirstOfName
PROPERTY
  ArrayIsList

\* The child goes on elsewhere when the headers are freed.
CHECK_DEADLOCK FALSE
