SPECIFICATION Spec
CONSTANTS
  a = a
  b = b
  d = d
  e = e
  N = 2
  TaskBatch = 1
  Call = {a, b, e}
  Origin <- MixOrigin
  Target <- MixTarget
  RingCapacity = 2
  FlushThreshold = 2
  PopBatch = 1
  Timed = {a}
  NoCall = NoCall
  NoLane = NoLane
CHECK_DEADLOCK FALSE
INVARIANTS
  NothingRunnableAsleep
PROPERTIES
  ProgramStarts
  ImplementsFairRemoteCalls
