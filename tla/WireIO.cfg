\* Handshakes, and control loops over TLS.
CONSTANTS
  ping = ping
  register = register
  huge = huge
  Messages = {ping, register, huge}
  Length <- Lengths
  HeaderLen = 2
  MaxFrame = 3
  Window = 4
  Links <- HandshakesAndTls
  BestEffort = {register}
  MaxFrames = 3
SPECIFICATION FairSpec
INVARIANTS InOrder FailsClosed
PROPERTY AllArrive
CHECK_DEADLOCK FALSE
