SPECIFICATION FairSpec
CONSTANTS
  s1 = s1
  s2 = s2
  t1 = t1
  t2 = t2
  p1 = p1
  p2 = p2
  x1 = x1
  x2 = x2
  NoSession = NoSession
  NoPlayer = NoPlayer
  NoDoc = NoDoc
  Server = {s1, s2}
  Request = {t1, t2}
  Player = {p1}
  SessionId = {x1, x2}
  Modes <- LiveModes
PROPERTY StartupEndsSessions
