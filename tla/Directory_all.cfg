SPECIFICATION Spec
CONSTANTS
  i1 = i1
  i2 = i2
  i3 = i3
  n1 = n1
  n2 = n2
  p1 = p1
  p2 = p2
  t1 = t1
  t2 = t2
  NoDoc = NoDoc
  NoName = NoName
  NoPlayer = NoPlayer
  NoId = NoId
  NoRequest = NoRequest
  Id = {i1, i2, i3}
  Name = {n1, n2}
  Player = {p1, p2}
  Task = {t1, t2}
  Modes <- SomeModes
SYMMETRY Symmetric
INVARIANT TypeOK
INVARIANT RankNamesBounded
PROPERTY OnlyCreationAdds
PROPERTY FirstNeverChanges
CHECK_DEADLOCK FALSE
