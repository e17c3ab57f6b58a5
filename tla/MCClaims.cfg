CONSTANTS
  c1 = c1
  ali = ali
  omid = omid
  w1 = w1
  w2 = w2
  t1 = t1
  t2 = t2
  con = con
  p1 = p1
  p2 = p2
  j1 = j1
  j2 = j2
  None = None
  Choices <- OneChoice
  Claims <- TwoClaims
  Staff <- Everybody
  RolesOf <- MCRolesOf
  Workers <- TwoWorkers
  Introduced <- OneChoice
  Payables <- NoPayables
  Jobs <- NoJobs
  MaxFailures = 1
SPECIFICATION PayablesSpec
CHECK_DEADLOCK FALSE
SYMMETRY Symmetry
INVARIANTS ApprovedHasCommission OneLiveClaim
