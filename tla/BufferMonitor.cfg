SPECIFICATION FairBufferSpec
CONSTANTS
  FillTarget = 2
  MaxWait = 2
  Plateau = 1
  MaxEvents = 3
INVARIANTS MonitorOK FrozenOnlyByOlderEvent
PROPERTIES UserPauseKept FillEnds
