SPECIFICATION Spec
CONSTANTS
  MaxPlaylists = 2
  Text = {"name", "other", ""}
  FirstText = "name"
  Freq = {"manual", "daily"}
  Type = {"ts", "m3u8"}
  MaxActions = 4
INVARIANTS SettingsOfSelected
CHECK_DEADLOCK FALSE
