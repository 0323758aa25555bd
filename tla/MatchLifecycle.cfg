SPECIFICATION Spec
CONSTANTS
  s1 = s1
  c1 = c1
  c2 = c2
  b1 = b1
  p1 = p1
  p2 = p2
  NoMatch = NoMatch
  NoDoc = NoDoc
  Server = {s1}
  Conn = {c1, c2}
  Boot = {b1}
  ServerOf <- OneServer
  MatchId = {"m1", "m2"}
  Player = {p1, p2}
  Modes <- SomeModes
SYMMETRY Symmetric
INVARIANT TypeOK
INVARIANT CreditsSound
INVARIANT WorkingCopySound
INVARIANT CurrentMatchIsRecorded
INVARIANT OnlyEndedExpire
PROPERTY RosterGrows
PROPERTY RecordStaysEnded
PROPERTY ImplementsPhases
