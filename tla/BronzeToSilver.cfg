SPECIFICATION SafeSpec
CONSTANTS
  k1 = k1
  k2 = k2
  e1 = e1
  e2 = e2
  Keys = {k1, k2}
  Events = {e1, e2}
  EventsOf <- MCEventsOf
  Runs = {r1, r2}
  Threads = {t1, t2}
  MaxInstant = 2
  MaxPuts = 3
  MaxFaults = 1
  None = None
SYMMETRY Symmetry
INVARIANTS
  TypeOK
  WarehouseExact
  RowsHaveProvenance
  SilverBacked
  RunClaimsOnlyLoaded
  IInv
PROPERTIES
  ProcessedOnce
  ReplayKeepsNewest
  ImplementsLoadOnce
  ImplementsSparkJob
