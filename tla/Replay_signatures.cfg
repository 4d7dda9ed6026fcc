\* PostgreSQL, one chat and one replay, no fault.
SPECIFICATION Spec
CONSTANTS
  c1 = c1
  r1 = r1
  r2 = r2
  m1 = m1
  m2 = m2
  a = a
  b = b
  Chat <- OneChat
  Eval <- OneEval
  Model <- TwoModels
  Routable <- OneRoute
  Answers <- TwoAnswers
  Wishes <- ThreeWishes
  Overrides <- NoOrColder
  Rune <- Runes
  Width <- Widths
  Param <- Names
  Critical <- Names
  NoResponse = NoResponse
  NoParams = NoParams
  Same = Same
  None = None
  ReplayBackend = "postgres"
  ReplayFaults = {}
INVARIANTS CandidatesVerify
CHECK_DEADLOCK FALSE
