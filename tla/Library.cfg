SPECIFICATION Spec
CONSTANTS
  m = m  x1 = x1  x2 = x2  f = f  pl = pl
  Channel = {m, x1, x2, f}
  Playlist = {pl}
  None = None
  Manual = {m}
  PlaylistOf <- MCPlaylistOf
  Group <- MCGroup
  TypeOf <- MCTypeOf
  CatOrder <- MCCatOrder
  Categories <- MCCategories
  Rank <- MCRank
  NameOf <- MCNameOf
  Search = {"", "q"}
  Hits <- MCHits
  Cell = {1, 2}
  MaxActions = 3
INVARIANTS AgreesAtRest ViewOK SectionsInOrder
CHECK_DEADLOCK FALSE
