SPECIFICATION Spec
CONSTANTS
  f1 = f1
  f2 = f2
  f3 = f3
  Facts <- MCFacts
  NoFact = NoFact
  Width = 4
  CharStart = 2
  MaxKills = 2
INVARIANT LogSurvives
PROPERTY ImplementsLog
CHECK_DEADLOCK FALSE
