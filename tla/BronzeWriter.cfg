SPECIFICATION Spec
CONSTANTS
  Partitions = {p1, p2}
  BatchSize = 2
  MaxMessages = 3
  MaxInterruptions = 2
  MaxDlqFaults = 1
INVARIANTS
  TypeOK
  NoAcceptedLoss
  StopLosesNothing
  RecordsBounded
  CopiesBounded
  QuarantinedUnlessDlqFails
  IInv
PROPERTIES
  EveryMessageArrives
  NothingHeldBack
