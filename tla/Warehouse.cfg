SPECIFICATION Spec
CONSTANTS
  e1 = e1
  e2 = e2
  e3 = e3
  s1 = s1
  s2 = s2
  Events = {e1, e2, e3}
  Segments = {s1, s2}
  SegmentOf <- MCSegmentOf
  ObservedAt <- MCObservedAt
  Seoul = {e1, e2}
  Batches <- MCBatches
  FreshFor = 1
  MaxInstant = 2
  MaxLoads = 2
  MaxFaults = 1
  None = None
INVARIANTS
  TypeOK
  FactMissesNothing
  PassedMartsAgree
PROPERTIES
  ImplementsFullRefresh
  GateRecovers
CHECK_DEADLOCK FALSE
