SPECIFICATION Spec
CONSTANTS
  r1 = r1
  r2 = r2
  r3 = r3
  N = 1
  TaskBatch = 2
  Request = {r1, r2, r3}
  MaxIo = 2
  Refusals = TRUE
  Interruptible = TRUE
CHECK_DEADLOCK FALSE
INVARIANTS
  TypeOK
  TokensMatchRequests
  NoCompletionForgotten
  EveryRequestIsAttended
PROPERTIES
  ResolvesWhileTokensLast
