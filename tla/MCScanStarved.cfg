CONSTANTS
  d1 = d1
  d2 = d2
  d3 = d3
  k1 = k1
  k2 = k2
  Documents <- TwoDocuments
  Contents <- CleanOnly
  Ticks <- OneTick
  Batch = 1
  Loud = 2
  MaxScans = 4
  MaxDeaths = 0
SPECIFICATION ScanFairSpec
CHECK_DEADLOCK FALSE
PROPERTIES StoredIsResolved
