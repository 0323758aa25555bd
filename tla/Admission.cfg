SPECIFICATION Spec
CONSTANTS
  p1 = p1
  p2 = p2
  x1 = x1
  x2 = x2
  t1 = t1
  t2 = t2
  NoPlayer = NoPlayer
  NoIp = NoIp
  NoPunishment = NoPunishment
  Player = {p1, p2}
  Ip = {x1, x2}
  Task = {t1, t2}
  Lengths <- SomeLengths
  Modes <- SomeModes
SYMMETRY Symmetric
INVARIANT TypeOK
INVARIANT BansHold
INVARIANT AddressesSound
CHECK_DEADLOCK FALSE
