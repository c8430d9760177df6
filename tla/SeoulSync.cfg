SPECIFICATION Spec
CONSTANTS
  a1 = a1
  a2 = a2
  v1 = v1
  v2 = v2
  l1 = l1
  l2 = l2
  t1 = t1
  t2 = t2
  Areas = {a1, a2}
  AreaLists <- MCAreaLists
  Code <- MCCode
  Versions = {v1, v2}
  Links = {l1, l2}
  Accepted <- MCAccepted
  Rejected <- MCRejected
  Threads = {t1, t2}
  SnapshotLength = 2
  MaxInstant = 3
  MaxFaults = 1
  MaxSyncs = 3
  None = None
SYMMETRY Symmetry
INVARIANTS
  TypeOK
  Lineage
  NothingDropped
  ReportsHold
  RecollectionDeduplicates
PROPERTY KeyFixesEvents
CHECK_DEADLOCK FALSE
