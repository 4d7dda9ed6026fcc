\* Two chat requests and two streams share the memory row with an administrator;
\* a restart.
SPECIFICATION StreamSpec
CONSTANTS
  r1 = r1
  r2 = r2
  s1 = s1
  s2 = s2
  Request <- TwoRequests
  Stream <- TwoStreams
  Global = Global
  NoQuote = NoQuote
  Backend = "memory"
  Limits = {0, 5}
  Estimates = {2, 3}
  Costs = {0, 4}
  AdminTotals = {0, 3}
  InitialBudget = 5
  Faults = {"crash"}
  MaxRetries = 1
  MaxCrashes = 1
  Chunks = {1}
  PriceOf <- Prices
  DefaultPrice = 1
  DegradeTo <- Degrades
  AskedModel = "dear"
  MaxChunks = 2
  MaxLost = 2
SYMMETRY Symmetry
INVARIANTS SharedBooks SettlesItsOwn
