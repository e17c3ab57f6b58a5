CONSTANTS
  o1 = o1
  o2 = o2
  adm = adm
  lia1 = lia1
  lia2 = lia2
  r1 = r1
  r2 = r2
  x1 = x1
  x2 = x2
  x3 = x3
  w1 = w1
  w2 = w2
  booking = booking
  None = None
  Staff <- Everybody
  RoleAtStart <- MCRoleAtStart
  Requests <- OneRequest
  Payloads <- AllPayloads
  Rows <- TwoRows
  Workers <- TwoWorkers
  MaxActs = 1
  MaxMishaps = 1
SPECIFICATION FairSpec
CHECK_DEADLOCK FALSE
INVARIANT ExecutedTookPlace
PROPERTIES ImplementsTwoPersonRule ApprovedEnds
