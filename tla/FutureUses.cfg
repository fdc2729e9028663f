SPECIFICATION Spec
CONSTANT Null = Null
CHECK_DEADLOCK FALSE
INVARIANTS
  AllArrive
  KeptUntilDone
  ExitsInTheEnd
