SPECIFICATION Spec
CONSTANTS
  p1 = p1
  p2 = p2
  red = red
  blue = blue
  NoParty = NoParty
  NoMatch = NoMatch
  NoOne = NoOne
  Never = Never
  Player = {p1, p2}
  Party = {red, blue}
  Gamemode = {"A", "ARCADE"}
  Share = 3
  LongEnough = 1
  AwayLimit = 1
  Modes <- SomeModes
SYMMETRY Symmetric
INVARIANT TypeOK
INVARIANT ResultsSound
INVARIANT TimeSound
CHECK_DEADLOCK FALSE
