SPECIFICATION Spec
CONSTANTS
  N = 1
  TaskBatch = 2
  Call = {1, 2, 3}
  QueueSize = 2
  Wrapped = {}
  Failing = {}
  Errno = 5
PROPERTIES
  EverySyscallCompletes
