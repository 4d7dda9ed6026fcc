\* PostgreSQL, two traces, every fault, and the fairness of the handlers.
SPECIFICATION FairSpec
CONSTANTS
  t1 = t1
  t2 = t2
  Trace <- Two
  NoTrace = NoTrace
  Shared = Shared
  TraceBackend = "postgres"
  Strategies <- TwoStrategies
  TraceFaults = {"store", "disconnect", "crash"}
INVARIANTS FinalTraceIsComplete AnswerMatchesTrace
PROPERTIES FollowsLifecycle TraceSettles
CHECK_DEADLOCK FALSE
