SPECIFICATION SafeSpec
CONSTANTS
  Objects = {o1, o2}
  Runs = {r1, r2, r3}
  None = None
  Retries <- MCRetries
SYMMETRY Symmetry
INVARIANTS
  TypeOK
  ReadyIsTested
  ReadyIsConsistent
  RunningRow
PROPERTY SuccessSticks
CHECK_DEADLOCK FALSE
