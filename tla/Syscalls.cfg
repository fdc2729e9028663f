SPECIFICATION MCSpec
CONSTANTS
  N = 1
  TaskBatch = 2
  Call = {1, 2, 3, 4, 5}
  QueueSize = 2
  Wrapped = {}
  Failing = {1}
  Errno = 5
INVARIANTS
  TypeOK
  TokensMatchCalls
  ResultsHaveRoom
  NoCallForgotten
  NoResultForgotten
  EveryCallIsAttended
PROPERTIES
  ImplementsFairRemoteCalls
