\* SQLite, a chat and two replays, every fault.
SPECIFICATION FairSpec
CONSTANTS
  c1 = c1
  r1 = r1
  r2 = r2
  m1 = m1
  m2 = m2
  a = a
  b = b
  Chat <- OneChat
  Eval <- TwoEvals
  Model <- TwoModels
  Routable <- OneRoute
  Answers <- TwoAnswers
  Wishes <- ThreeWishes
  Overrides <- NoOrColder
  Rune <- Runes
  Width <- Widths
  Param <- Names
  Critical <- Names
  NoResponse = NoResponse
  NoParams = NoParams
  Same = Same
  None = None
  ReplayBackend = "sqlite"
  ReplayFaults = {"store", "upstream", "crash"}
INVARIANTS ReportDescribesTraces ReportHasTraces CandidatesVerify
PROPERTIES EveryReplayEnds
CHECK_DEADLOCK FALSE
