\* The router that main builds, one administrator with one request.
SPECIFICATION Spec
CONSTANTS
  p1 = p1
  p2 = p2
  m1 = m1
  c1 = c1
  a1 = a1
  a2 = a2
  fine = fine
  coarse = coarse
  huge = huge
  Price <- ThreePrices
  FilePrice = coarse
  Column <- Rounds
  Refused = Refused
  None = None
  Torn = Torn
  Provider <- TwoProviders
  Model <- OneModel
  Chat <- OneChat
  ModelOf <- SameModel
  Admin <- OneAdmin
  Upstreams <- TwoUpstreams
  DefaultUpstream = p1
  ProviderBackend = "none"
  StoreMayFail = FALSE
  MaxRequests = 1
  MaxRestarts = 1
PROPERTIES SurvivesRestart
CHECK_DEADLOCK FALSE
