\* Responses of up to three runes, one of them three bytes wide, and longer ones;
\* three extensions; four writes of the file in four granules of its clock; three
\* requests of one session, two of them with personal data; two callers, one of
\* them with a stream, and three failures that open the breaker; a stream of
\* three events of three pieces each over a channel that holds two messages.
SPECIFICATION StandaloneSpec
CONSTANTS
  a = a
  b = b
  w = w
  Rune <- Runes
  Width <- Widths
  Param <- Names
  Critical <- CriticalNames
  NoResponse = NoResponse
  NoParams = NoParams
  Same = Same
  NoReport = NoReport
  Pairs <- AllPairs
  MaxAligned = 3
  audit = audit
  firewall = firewall
  rules = rules
  Namespace <- Extensions
  Offered <- Offers
  Configs <- Lists
  Missing = Missing
  NoConfig = NoConfig
  MaxWrites = 4
  MaxTime = 4
  r1 = r1
  r2 = r2
  r3 = r3
  session1 = session1
  Request <- ThreeRequests
  Session <- OneSession
  SessionOf <- SameSession
  PII <- Kinds
  PromptOf <- Prompts
  Chains <- LimiterFirst
  MaxRequestsPerMinute = 1
  Minute = 2
  MaxClock = 3
  c1 = c1
  c2 = c2
  Caller <- TwoCallers
  Streaming <- OneStream
  Threshold = 3
  MaxRetries = 2
  Events = 3
  Capacity = 2
INVARIANTS DistanceIsLeast BlockedInBand ApprovedIsClose DependenciesPresent ConflictsByOrder OverlookedForCause
INVARIANTS ReportsItsOwn TwoWindowsAtMost RefusedForCause InOrder LostOnlyInBursts BreakIsTold
PROPERTIES EventuallyServed OpensForCause OpensWhenDown ClosesWhenUp GoroutinesOfStreamEnd
CHECK_DEADLOCK FALSE
