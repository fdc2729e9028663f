SPECIFICATION Spec
CONSTANTS
  p1 = p1
  p2 = p2
  f1 = f1
  f2 = f2
  f3 = f3
  k1 = k1
  k2 = k2
  Null = Null
  Promise = {p1, p2}
  Future = {f1, f2}
  Cont = {k1, k2}
  Channels = 3
CHECK_DEADLOCK FALSE
INVARIANTS
  TypeOK
  PointersAgree
  ValueInOnePlace
  EndsMeet
PROPERTIES
  ImplementsSingleUse
