SPECIFICATION Spec
CONSTANTS
  i1 = i1
  i2 = i2
  n1 = n1
  n2 = n2
  n3 = n3
  m1 = m1
  m2 = m2
  t1 = t1
  t2 = t2
  NoDoc = NoDoc
  NoMatch = NoMatch
  Id = {i1, i2}
  Name = {n1, n2, n3}
  Match = {m1, m2}
  Task = {t1, t2}
  Modes <- SomeModes
SYMMETRY Symmetric
INVARIANT TypeOK
INVARIANT LevelsSound
PROPERTY LevelsMoveForward
CHECK_DEADLOCK FALSE
