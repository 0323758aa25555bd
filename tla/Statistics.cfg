SPECIFICATION Spec
CONSTANTS
  p1 = p1
  p2 = p2
  NoOne = NoOne
  NoMatch = NoMatch
  NoDoc = NoDoc
  Player = {p1, p2}
  Gamemode = {"A", "B", "ARCADE"}
  Levels <- OrdinaryAndArcade
  Modes <- SomeModes
  Crowd = 2
  BreaksRequired = 3
SYMMETRY Symmetric
INVARIANT TypeOK
INVARIANT BooksBalance
INVARIANT BreaksLeaveOrder
CHECK_DEADLOCK FALSE
