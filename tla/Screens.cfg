SPECIFICATION FairSpec
CONSTANTS
  x = x  y = y  tv = tv  dyn = dyn
  Screen = {x, y}
  MaxCells = 2
  Channel = {tv, dyn}
  Dynamic = {dyn}
  KindOf <- MCKindOf
  Supported = {"hls", "dash"}
  Recoveries <- MCRecoveries
  NoChannel = NoChannel  NoPlayer = NoPlayer
  MaxActions = 4
INVARIANTS PlaysWhatItNames DisplayOK
PROPERTIES DeadWhenAllFailed LoadingEnds
CHECK_DEADLOCK FALSE
