\* Control loops over QUIC.
CONSTANTS
  ping = ping
  register = register
  huge = huge
  Messages = {ping, register, huge}
  Length <- Lengths
  HeaderLen = 2
  MaxFrame = 3
  Window = 4
  Links <- Quic
  BestEffort = {register}
  MaxFrames = 3
SPECIFICATION Spec
INVARIANT InOrder
CHECK_DEADLOCK FALSE
