CONSTANTS
  s1 = s1
  s2 = s2
  k1 = k1
  k2 = k2
  w1 = w1
  w2 = w2
  lia1 = lia1
  lia2 = lia2
  adm = adm
  fin = fin
  con = con
  sup = sup
  None = None
  Cases <- OneCase
  Submissions <- OneSubmission
  Staff <- Trio
  RoleOf <- MCRoleOf
  Hired <- MCHired
  Speaks <- MCSpeaks
  ClientLanguage = "vi"
  LeadOwner = None
  Workers <- TwoWorkers
  Providers <- Both
  Accounts <- NewClient
  MaxMishaps = 1
  Flags = {TRUE}
SPECIFICATION Spec
CHECK_DEADLOCK FALSE
INVARIANTS AccessWasSigned SignedIsComplete RestIsServed
PROPERTIES SignaturesStay
SYMMETRY Symmetry
