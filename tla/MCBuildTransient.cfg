SPECIFICATION Spec
CONSTANTS
  x = x
  y = y
  z = z
  w = w
  NoGate = NoGate
  DispatchError = DispatchError
  BuildWide = BuildWide
  Planner = Planner
  Plans <- MCPlans
  Acceptances = {NoGate, 3}
  Exits = {0, 1, 5}
  Verdicts <- MCVerdicts
  MaxStarts = 2
  Codes = {"CS0246", "CS1061"}
  MaxErrors = 1
  MAX_FIX_CYCLES = 2
  MAX_REWRITES = 1
INVARIANT TransientIsNotDropped
CHECK_DEADLOCK FALSE
