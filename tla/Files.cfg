SPECIFICATION Spec
CONSTANTS
  o1 = o1
  o2 = o2
  h1 = h1
  h2 = h2
  m1 = m1
  q1 = q1
  q2 = q2
  Opening = {o1, o2}
  Handle = {h1, h2}
  Meta = {m1}
  Request = {q1, q2}
  Fd = {3, 4}
  SysTokens = 3
  IoTokens = 2
  NoFd = NoFd
  NoFile = NoFile
CHECK_DEADLOCK FALSE
INVARIANTS
  CallsReachTheirFile
  RequestsReachTheirFile
PROPERTIES
  EveryDescriptorIsClosed
