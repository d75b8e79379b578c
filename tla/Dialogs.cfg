SPECIFICATION FairSpec
CONSTANTS
  ch = ch  e1 = e1  e2 = e2  upper = upper  bad = bad
  Channel = {ch}
  Entry = {e1, e2, upper, bad}
  Valid = {e1, e2, upper}
  Streams = {e1, e2}
  File = {{e1, e2}, {e2, upper, bad}}
  None = None
  MaxActions = 6
INVARIANTS DialogsOK
PROPERTIES ClosedWhenSaved ButtonsComeBack
CHECK_DEADLOCK FALSE
