SPECIFICATION Safe
CONSTANTS
  N = 1
  TaskBatch = 2
  Call = {1}
  QueueSize = 2
  Wrapped = {1}
  Failing = {1}
  Errno = 5
INVARIANTS
  FailuresAreReported
