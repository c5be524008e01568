CONSTANTS
  s1 = s1  s2 = s2  a = a  b = b  p = p  q = q
  l1 = l1  l2 = l2  c1 = c1  c2 = c2  h1 = h1  h2 = h2
  Session <- OneSession
  ServiceId = {a}
  Principal = {p}
  Listener = {l1, l2}
  Conn = {c1, c2}
  Hello = {h1}
  PrincipalOf <- OnePrincipal
  SessionOf <- OneSessionOf
  ServiceOf <- SameServiceOf
  MaxServices = 1
  MaxConnections = 2
  MaxPending = 2
  QueueCapacity = 1
  NoListener = NoListener
  NoHello = NoHello
  NoMessage = NoMessage
SPECIFICATION Spec
PROPERTY TeardownRemovesOwn
CHECK_DEADLOCK FALSE
