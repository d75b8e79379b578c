SPECIFICATION FairXtreamSpec
CONSTANTS
  h1 = h1  s1 = s1  s2 = s2  p1 = p1  p2 = p2  g1 = g1  g2 = g2  c1 = c1  c2 = c2
  NoHint = NoHint  NoRecipe = NoRecipe  NoPlaylist = NoPlaylist  Sweeper = Sweeper
  Names = {1}
  Urls = {}
  Hosts = {h1}
  HostOf <- MCHostOf
  Hints = {}
  Recipes = {}
  FeedIds = {}
  Feed <- MCFeed
  Batches = {}
  PlaylistIds = {p1}
  Settings = {g1}
  StreamIds = {s1, s2}
  Panels <- MCPanels
  Handlers = {c1, c2, Sweeper}
  Ops = {"fav"}
  PlaylistOps = {"save", "refresh", "patch", "remove"}
  Freqs = {"manual", "daily"}
  FirstDay = 1
  MaxDay = 2
  MaxRequests = 3
  MaxRestarts = 1
INVARIANTS SavedOK
PROPERTIES FavouriteOnlyByRequest OrphansOnlyByLateImport SweepEnds
CHECK_DEADLOCK FALSE
