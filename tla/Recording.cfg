SPECIFICATION FairSpec
CONSTANTS
  a = a  b = b
  Channel = {a, b}
  NoChannel = NoChannel
  MaxCells = 2
  MaxRecs = 2
  MaxActions = 4
INVARIANTS SoundOK LostOnlyByOverlap AnsweredStopIsFinal OutlivesOnlyIfLater
PROPERTIES StopsReturn
CHECK_DEADLOCK FALSE
