SPECIFICATION Spec
CONSTANTS
  v1 = v1
  v2 = v2
  o1 = o1
  o2 = o2
  s1 = s1
  s2 = s2
  Visas <- TwoVisas
  Orphans <- OneOrphan
  Owners <- TwoOwners
  Thresholds <- TwoAndOne
  Sweeps <- TwoSweeps
  EndDays = {1, 2}
  LastDay = 0
  MaxEdits = 1
  MaxSweeps = 1
  MaxFailures = 0
SYMMETRY Interchangeable
CHECK_DEADLOCK FALSE
PROPERTY TrailKept
