\* A PostgreSQL store, one administrator with two requests, one chat request.
SPECIFICATION Spec
CONSTANTS
  p1 = p1
  p2 = p2
  m1 = m1
  c1 = c1
  a1 = a1
  a2 = a2
  fine = fine
  coarse = coarse
  huge = huge
  Price <- ThreePrices
  FilePrice = coarse
  Column <- Rounds
  Refused = Refused
  None = None
  Torn = Torn
  Provider <- TwoProviders
  Model <- OneModel
  Chat <- OneChat
  ModelOf <- SameModel
  Admin <- OneAdmin
  Upstreams <- TwoUpstreams
  DefaultUpstream = p1
  ProviderBackend = "postgres"
  StoreMayFail = TRUE
  MaxRequests = 2
  MaxRestarts = 1
INVARIANTS PricedAsSent RoutedRight StoreFollows
CHECK_DEADLOCK FALSE
