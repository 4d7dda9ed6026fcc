\* The memory store, which shows each assignment of the handler, beside the
\* monitor: metrics of all the traces, and lists of none and of the last one.
SPECIFICATION MonitorSpec
CONSTANTS
  t1 = t1
  t2 = t2
  Trace <- Two
  NoTrace = NoTrace
  Shared = Shared
  TraceBackend = "memory"
  Strategies = {"hard_stop"}
  TraceFaults = {"disconnect", "crash"}
  MetricsLimit = 2
  ListLimits = {0, 1}
SYMMETRY Traces
INVARIANTS MetricsAddUp AnsweredIsTallied
PROPERTIES StoreNeverGoesBack
CHECK_DEADLOCK FALSE
