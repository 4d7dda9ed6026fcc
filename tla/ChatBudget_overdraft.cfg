\* One request on Redis, and nothing fails: used + reserved against the budget.
SPECIFICATION Spec
CONSTANTS
  r1 = r1
  r2 = r2
  r3 = r3
  Request <- One
  Global = Global
  NoQuote = NoQuote
  Backend = "redis"
  Limits = {2}
  Estimates = {2}
  Costs = {1, 2}
  AdminTotals = {1}
  InitialBudget = 5
  Faults = {}
  MaxRetries = 3
  MaxCrashes = 0
INVARIANT NoOverdraft
