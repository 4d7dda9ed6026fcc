\* A response that has little in common with the one of the chat.
SPECIFICATION Spec
CONSTANTS
  a = a
  b = b
  w = w
  Rune <- Runes
  Width <- Widths
  Param <- Names
  Critical <- CriticalNames
  NoResponse = NoResponse
  NoParams = NoParams
  Same = Same
  NoReport = NoReport
  Pairs <- AllPairs
  MaxAligned = 3
INVARIANT OtherOutputBlocks
CHECK_DEADLOCK FALSE
