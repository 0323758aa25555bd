SPECIFICATION BoardsSpec
CONSTANTS
  t1 = t1
  t2 = t2
  m1 = m1
  m2 = m2
  NoMember = NoMember
  Task = {t1, t2}
  Member = {m1, m2}
  Calendar <- Dates
  Cap = 1
  Word = 16
  Settings <- SomeSettings
SYMMETRY Symmetric
INVARIANT BoardsTypeOK
INVARIANT PeriodsInStep
INVARIANT HighestKept
INVARIANT AnswersAreTops
PROPERTY BestNeverDecreases
CHECK_DEADLOCK FALSE
