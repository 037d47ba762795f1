SPECIFICATION Spec
CONSTANTS
  ItemCount = 4
  Configured = {0, 1, 2, 3}
  Outcomes = {"ok", "failed"}
  NoOutcome = NoOutcome
INVARIANTS PermitsConserved NoLostWakeup ResultsAttributed
PROPERTIES LevelReturns ImplementsHardGate
CHECK_DEADLOCK FALSE
