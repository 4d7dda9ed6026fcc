\* Two requests on SQLite, every fault, an administrator writing "__global__".
SPECIFICATION FairSpec
CONSTANTS
  r1 = r1
  r2 = r2
  r3 = r3
  Request <- Two
  Global = Global
  NoQuote = NoQuote
  Backend = "sqlite"
  Limits = {0, 2, 4}
  Estimates = {2, 3}
  Costs = {1, 4}
  AdminTotals = {1}
  InitialBudget = 5
  Faults = {"store", "disconnect", "crash"}
  MaxRetries = 1
  MaxCrashes = 1
INVARIANTS HardStop HeldUntilSettled NoOverdraft QuoteNeverOverstates
PROPERTY EveryRequestEnds
