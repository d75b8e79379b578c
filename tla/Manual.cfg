SPECIFICATION PromiseSpec
CONSTANTS
  u1 = u1  u2 = u2  h1 = h1  k1 = k1  f1 = f1
  r1 = r1  c1 = c1  c2 = c2  c3 = c3
  NoHint = NoHint  NoRecipe = NoRecipe  NoPlaylist = NoPlaylist  Sweeper = Sweeper
  PlaylistIds = {}  Settings = {}  StreamIds = {}
  Names = {1}
  Urls = {u1, u2}
  Hosts = {h1}
  HostOf <- MCHostOf
  Hints = {k1}
  Recipes = {r1}
  FeedIds = {f1}
  Feed <- MCFeed
  Batches <- MCBatches
  Handlers = {c1, c2}
  Ops = {"fav", "add", "import", "addres", "resolve", "update", "delete"}
  MaxRequests = 3
INVARIANTS CatalogOK
PROPERTIES FavouriteOnlyByRequest NoResurrection ReadYourWrites ImportKeepsLinksUnique KeepsCatalogPromise
SYMMETRY Symmetry
CHECK_DEADLOCK FALSE
