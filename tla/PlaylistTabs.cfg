SPECIFICATION Spec
CONSTANTS
  MaxPlaylists = 2
  Text = {"name", "other", ""}
  FirstText = "name"
  Freq = {"manual", "daily"}
  Type = {"ts", "m3u8"}
  MaxActions = 4
INVARIANTS TabsOK AgreesAtRest NothingUnconfirmed
PROPERTIES OneSettingAtATime
CHECK_DEADLOCK FALSE
