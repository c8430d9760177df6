SPECIFICATION Spec
CONSTANTS
  Null = Null
  None = None
  f1 = f1
  f2 = f2
  f3 = f3
  m1 = m1
  m2 = m2
  Files = {f1, f2, f3}
  Options = {m1, m2}
  RowsOf <- MCRowsOf
  Processes = {p1, p2}
  MaxDay = 1
  MaxIngests = 4
  MaxFaults = 2
SYMMETRY Symmetry
INVARIANTS
  TypeOK
  EachRowOnce
  NamedRowsLoad
CHECK_DEADLOCK FALSE
