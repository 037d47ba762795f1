SPECIFICATION Spec
CONSTANTS
  a = a
  b = b
  c = c
  Branches <- MCBranches
  BranchLists <- MCBranchLists
  Codes = {"CS0246", "CS1061"}
  MaxErrors = 3
  MAX_FIX_CYCLES = 2
  MAX_REWRITES = 1
INVARIANTS CostBounded FixesShrink AcceptedMeansWhole MergesAreComplete
PROPERTIES ConflictIsTerminal LevelEnds
CHECK_DEADLOCK FALSE
