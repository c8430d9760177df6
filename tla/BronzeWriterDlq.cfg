SPECIFICATION SafeSpec
CONSTANTS
  Partitions = {p1}
  BatchSize = 2
  MaxMessages = 2
  MaxInterruptions = 0
  MaxDlqFaults = 1
INVARIANT InvalidQuarantined
