\* Two requests on Redis: lost replies and scripts sent again, errors, hung-up
\* clients, a restart.  And two streams of one session there, with two lost
\* replies each, an administrator and a restart.
SPECIFICATION PartsSpec
CONSTANTS
  r1 = r1
  r2 = r2
  s1 = s1
  s2 = s2
  Request <- TwoRequests
  Stream <- TwoStreams
  Global = Global
  NoQuote = NoQuote
  Backend = "redis"
  Limits = {0, 2, 4}
  Estimates = {2, 3}
  Costs = {0, 4}
  AdminTotals = {3, 6}
  InitialBudget = 5
  Faults = {"store", "reply", "disconnect", "crash"}
  MaxRetries = 2
  MaxCrashes = 1
  Chunks = {1}
  PriceOf <- Prices
  DefaultPrice = 1
  DegradeTo <- Degrades
  AskedModel = "dear"
  MaxChunks = 2
  MaxLost = 2
SYMMETRY Symmetry
INVARIANT RedisBooks
PROPERTY KeepsPromise
