CONSTANTS
  s1 = s1  s2 = s2  a = a  b = b  p = p  q = q
  l1 = l1  l2 = l2  c1 = c1  c2 = c2  h1 = h1  h2 = h2
  Session <- TwoSessions
  ServiceId = {a}
  Principal = {p, q}
  Listener = {l1, l2}
  Conn = {c1}
  Hello = {h1, h2}
  PrincipalOf <- TwoPrincipals
  SessionOf <- TwoSessionOf
  ServiceOf <- SameServiceOf
  MaxServices = 1
  MaxConnections = 1
  MaxPending = 1
  QueueCapacity = 1
  NoListener = NoListener
  NoHello = NoHello
  NoMessage = NoMessage
SPECIFICATION Spec
SYMMETRY ConnSymmetry
PROPERTY ImplementsTicket
CHECK_DEADLOCK FALSE
