SPECIFICATION FairSpec
CONSTANTS
  a = a  b = b  s1 = s1  s2 = s2  w1 = w1  w2 = w2  v1 = v1  v2 = v2
  Segments = {a, b}
  TsLinks = {b}
  Listings <- MCListings
  Schedulers = {s1, s2}
  Workers = {w1, w2}
  Viewers = {v1, v2}
  NoOne = NoOne
  PrefetchConcurrency = 2
INVARIANTS PoolOK OneWarmPerSegment BoundedFanout
PROPERTIES PoolDrains
