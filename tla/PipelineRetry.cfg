SPECIFICATION SafeSpec
CONSTANTS
  Objects = {o1}
  Runs = {r1}
  None = None
  Retries <- MCRetries
INVARIANT RetryReplaysBatch
CHECK_DEADLOCK FALSE
