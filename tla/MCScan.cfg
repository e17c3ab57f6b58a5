CONSTANTS
  d1 = d1
  d2 = d2
  d3 = d3
  k1 = k1
  k2 = k2
  Documents <- TwoDocuments
  Contents <- BothContents
  Ticks <- TwoTicks
  Batch = 1
  Loud = 2
  MaxScans = 4
  MaxDeaths = 1
SPECIFICATION ScanSpec
CHECK_DEADLOCK FALSE
SYMMETRY Symmetry
INVARIANTS CleanWasScanned
PROPERTIES VerdictStands
