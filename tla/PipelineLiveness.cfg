SPECIFICATION Spec
CONSTANTS
  Objects = {o1, o2}
  Runs = {r1, r2}
  None = None
  Retries <- MCRetries
PROPERTY EveryRunEnds
CHECK_DEADLOCK FALSE
