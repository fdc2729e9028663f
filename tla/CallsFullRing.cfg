SPECIFICATION Safe
CONSTANTS
  a = a
  b = b
  d = d
  e = e
  N = 2
  TaskBatch = 2
  Call = {a, b, d}
  Origin <- CrossOrigin
  Target <- CrossTarget
  RingCapacity = 1
  FlushThreshold = 2
  PopBatch = 1
  Timed = {}
  NoCall = NoCall
  NoLane = NoLane
CHECK_DEADLOCK FALSE
INVARIANTS
  TypeOK
  NoLostWakeup
  StrandedCallsHaveForerunner
  QuietMeansDone
  NestedAnswersAfterInner
  EachCallInOnePlace
  StartsInOrder
PROPERTIES
  ImplementsRemoteCalls
