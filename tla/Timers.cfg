SPECIFICATION Spec
CONSTANTS
  t1 = t1
  t2 = t2
  t3 = t3
  N = 1
  TaskBatch = 2
  Timer = {t1, t2, t3}
  Interval = {0, 2}
  Horizon = 4
INVARIANTS
  TypeOK
  NoTimerForgotten
  SleepsUntilDue
  RunsInOrder
PROPERTIES
  ImplementsAlarms
  EveryTimerRuns
