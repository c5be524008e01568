CONSTANTS
  r1 = r1  r2 = r2  r3 = r3  i1 = i1  i2 = i2  n1 = n1  n2 = n2
  None = None
  ServiceId = {i1, i2}
  Name = {n1, n2}
  Reg = {r1, r3}
  Boot = {}
  IdOf <- PairIds
  NameOf <- PairNames
  Denied = {}
  FixedPort = {}
  Modes = {"legacy"}
  MaxGen = 1
  MaxInFlight = 1
  ClientLimit = 2
  ServerLimit = 2
  MaxTombs = 1
  CommandQueue = 2
  MaxUnregisters = 1
  WireCap = 1
SPECIFICATION Spec
INVARIANT SingleOutstanding
CHECK_DEADLOCK FALSE
