\* One Service, two connections, and a DataHello of either Principal.
CONSTANTS
  s1 = s1  s2 = s2  a = a  b = b  p = p  q = q
  l1 = l1  l2 = l2  c1 = c1  c2 = c2  h1 = h1  h2 = h2
  Session <- OneSession
  ServiceId = {a}
  Principal = {p, q}
  Listener = {l1}
  Conn = {c1, c2}
  Hello = {h1}
  PrincipalOf <- OnePrincipal
  SessionOf <- OneSessionOf
  ServiceOf <- SameServiceOf
  MaxServices = 1
  MaxConnections = 2
  MaxPending = 1
  QueueCapacity = 1
  NoListener = NoListener
  NoHello = NoHello
  NoMessage = NoMessage
SPECIFICATION FairSpec
INVARIANT PendingBounded
PROPERTIES
  ImplementsTicket
  ConnectionsSettle
  ContextFreed
CHECK_DEADLOCK FALSE
