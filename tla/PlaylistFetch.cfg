SPECIFICATION FairPromiseSpec
CONSTANTS
  c1 = c1  c2 = c2
  Clients = {c1, c2}
  NoOne = NoOne
  PlaylistTTL = 1
  LkgTTL = 2
  MaxClock = 3
INVARIANTS FlightOK
PROPERTIES KeepsPromise EveryRequestAnswered
