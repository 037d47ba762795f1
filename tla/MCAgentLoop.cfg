SPECIFICATION Spec
CONSTANTS
  read = read
  write = write
  nosuch = nosuch
  NoUsage = NoUsage
  NoCap = NoCap
  Tools <- MCTools
  UnknownTool = nosuch
  Usages <- MCUsages
  CallLists <- MCCallLists
  MaxIterations = 4
  BudgetTokens = 5
  BudgetCost = 2
  MaxCallTokens = 3
  CONSECUTIVE_FAILURE_LIMIT = 3
  MAX_ATTEMPTS = 5
INVARIANTS TypeOK SpendBounded LogIsFaithful
PROPERTIES ImplementsContract RunReturns
CHECK_DEADLOCK FALSE
