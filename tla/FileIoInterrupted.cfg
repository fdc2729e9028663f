SPECIFICATION Spec
CONSTANTS
  r1 = r1
  r2 = r2
  r3 = r3
  N = 1
  TaskBatch = 2
  Request = {r1}
  MaxIo = 2
  Refusals = FALSE
  Interruptible = TRUE
CHECK_DEADLOCK FALSE
PROPERTIES
  EveryRequestResolves
