SPECIFICATION Spec
CONSTANTS
  p1 = p1
  p2 = p2
  n1 = n1
  n2 = n2
  n3 = n3
  t1 = t1
  t2 = t2
  tag = tag
  rank = rank
  feat = feat
  NoDoc = NoDoc
  NoName = NoName
  NoTag = NoTag
  NoLabel = NoLabel
  NoRequest = NoRequest
  Player = {p1, p2}
  Name = {n1, n2, n3}
  Tag = {tag}
  Rank = {rank}
  Achievement = {feat}
  Task = {t1, t2}
  Modes <- SomeModes
SYMMETRY Symmetric
INVARIANT TypeOK
INVARIANT CopiesSound
INVARIANT RequestsTakeEffect
PROPERTY NothingForgotten
CHECK_DEADLOCK FALSE
