SPECIFICATION Spec
CONSTANTS
  a = a
  b = b
  d = d
  e = e
  N = 2
  TaskBatch = 1
  Call = {a, b}
  Origin <- PairOrigin
  Target <- PairTarget
  RingCapacity = 1
  FlushThreshold = 2
  PopBatch = 1
  Timed = {}
  NoCall = NoCall
  NoLane = NoLane
CHECK_DEADLOCK FALSE
PROPERTIES
  EveryCallCompletes
